---- MODULE Spec2Model ----
(***************************************************************************)
(* SAR Narrative Generator (backend/main.py and the modules it calls).     *)
(*                                                                         *)
(* Representation.                                                         *)
(*  - A Python str on which the code does string work (strip, slicing,     *)
(*    len) is a TLA+ string handled with Len, SubSeq and \o.               *)
(*  - Python None where a str may stand is None, elsewhere (a NULL JSON   *)
(*    column) Null.  A NULL review_history is the empty sequence: record_history   *)
(*    treats None and [] alike ("history or []") and nothing stores [].    *)
(*  - A float is a fixed-point integer in hundredths (0.82 is 82, a risk   *)
(*    score of 33.3 is 3330); divisions truncate.                          *)
(*  - A transaction timestamp is a number of whole hours.                  *)
(*  - The wall clock (created_at, the timestamp of an audit event) is      *)
(*    counted in readings taken for audit events, see utcnow.              *)
(*  - uuid4 case ids are 1, 2, ... in creation order.                      *)
(*  - The cases table is the function `cases`, the audit_events table the  *)
(*    sequence `audit` in autoincrement-id order.                          *)
(***************************************************************************)
EXTENDS Integers, Sequences, FiniteSets, TLC

VARIABLES
    cases,      \* cases table: case id -> committed row            (models.py Case)
    audit,      \* audit_events table, in insertion order           (models.py AuditEvent)
    resp,       \* the response of the latest request               (main.py handlers)
    guard_in,   \* arguments of the latest _hallucination_guard call
    guard_out,  \* "raise" / "pass": its outcome
    req,        \* per worker thread: the handler it is executing   (concurrent spec)
    posts,      \* case id -> requests.post calls made during its pipeline run  (llm.py)
    call        \* a function called on its own: its name, arguments and result

vars == <<cases, audit, resp, guard_in, guard_out, req, posts, call>>

-----------------------------------------------------------------------------
(* Bounds *)

MaxCases == 1       \* rows the cases table may hold
MaxBatch == 1       \* alerts in one /batch-ingest payload
MaxCites == 2       \* length of a citation list handed to the guard
MaxThreads == 2     \* requests handled at the same time
MaxLifecycle == 3   \* lifecycle requests accepted while requests overlap
MaxTxns == 3        \* transactions of an alert built for the Rule Engine alone
MaxClock == 2       \* clock readings at which one scoring may be repeated
MaxDepth == 2       \* nesting depth of a JSON value handed to the PII masker

-----------------------------------------------------------------------------
(* Generic helpers *)

None == "<None>"
Null == [null |-> TRUE]

Range(s) == {s[i] : i \in 1..Len(s)}

Min(a, b) == IF a <= b THEN a ELSE b
Max(a, b) == IF a >= b THEN a ELSE b

RECURSIVE SumSeq(_)
SumSeq(s) == IF s = <<>> THEN 0 ELSE Head(s) + SumSeq(Tail(s))

\* [x for x in s if P(x)]
RECURSIVE SelectSeqIdx(_, _, _)
SelectSeqIdx(s, keep, i) ==
    IF i > Len(s) THEN <<>>
    ELSE (IF i \in keep THEN <<s[i]>> ELSE <<>>) \o SelectSeqIdx(s, keep, i + 1)

\* all sequences over S of length at most n
SeqUpTo(S, n) == UNION {[1..k -> S] : k \in 0..n}

-----------------------------------------------------------------------------
(* Python str operations *)

Whitespace == {" ", "\n", "\t", "\r"}

CharAt(s, i) == SubSeq(s, i, i)

\* str.strip(): from the first to the last non-whitespace character
strip(s) ==
    LET solid == {i \in 1..Len(s) : CharAt(s, i) \notin Whitespace}
    IN  IF solid = {} THEN ""
        ELSE SubSeq(s, CHOOSE i \in solid : \A j \in solid : i <= j,
                       CHOOSE i \in solid : \A j \in solid : i >= j)

\* character-wise translation of s by the table tr (character -> str),
\* halving s to keep the evaluation shallow
RECURSIVE translate(_, _)
translate(tr, s) ==
    IF Len(s) = 0 THEN ""
    ELSE IF Len(s) = 1 THEN (IF s \in DOMAIN tr THEN tr[s] ELSE s)
    ELSE translate(tr, SubSeq(s, 1, Len(s) \div 2))
         \o translate(tr, SubSeq(s, (Len(s) \div 2) + 1, Len(s)))

\* str.replace("\n", " ")
replace_newline(s) == translate("\n" :> " ", s)

\* s[:n]
Prefix(s, n) == SubSeq(s, 1, Min(n, Len(s)))

\* s[-n:] for Len(s) >= n
Suffix(s, n) == SubSeq(s, Len(s) - n + 1, Len(s))

\* sep.join(parts)
RECURSIVE join(_, _)
join(sep, parts) ==
    IF parts = <<>> THEN ""
    ELSE IF Len(parts) = 1 THEN parts[1]
    ELSE parts[1] \o sep \o join(sep, Tail(parts))

-----------------------------------------------------------------------------
(* evidence.py: PII masking *)

PII_FIELDS == {"name", "customer_name", "account_number", "customer_id",
               "address", "email", "phone", "dob"}

\* _mask_value that shortens only values of fewer than four characters
mask_value_mut(value) ==
    IF value = None \/ value = "" THEN value
    ELSE IF Len(value) < 4 THEN "****"
    ELSE Prefix(value, 2) \o "****" \o Suffix(value, 2)

\* _mask_value: falsy values pass through, short values become the marker
mask_value(value) ==
    IF value = None \/ value = "" THEN value
    ELSE IF Len(value) <= 4 THEN "****"
    ELSE Prefix(value, 2) \o "****" \o Suffix(value, 2)

\* mask_pii on a flat dict whose non-sensitive values are scalars or lists
\* of scalars (the customer profile): sensitive keys masked, others copied
mask_pii(obj) ==
    [k \in DOMAIN obj |-> IF k \in PII_FIELDS THEN mask_value(obj[k]) ELSE obj[k]]

\* mask_pii on {"alert": alert}: recursion reaches the customer dict; the
\* transaction dicts carry no sensitive key
mask_alert(alert) == [alert EXCEPT !.customer = mask_pii(alert.customer)]

-----------------------------------------------------------------------------
(* The alerts submitted to the service *)

Ts(h)  == [kind |-> "str", h |-> h]      \* ISO-8601 string, h hours after the epoch
BadTs  == [kind |-> "str", h |-> -1]     \* a string fromisoformat() rejects
NoTs   == [kind |-> "none", h |-> -1]    \* key absent / None
Dt(h)  == [kind |-> "datetime", h |-> h] \* parsed datetime object

Txn(amount, direction, counterparty, country, ts) ==
    [amount |-> amount, direction |-> direction, counterparty |-> counterparty,
     country |-> country, timestamp |-> ts]

CustomerPlain == [name |-> "Asha Rao", account_number |-> "1234", pep_flags |-> <<>>]
CustomerPep   == [name |-> "Bo", account_number |-> "9900112233", pep_flags |-> <<"PEP">>]

\* no transactions at all
AlertEmpty == [customer |-> CustomerPlain, transactions |-> <<>>, risk_rating |-> "low"]

\* inbound followed two hours later by outbound; one transaction to a
\* high-risk country without counterparty and with an unparsable timestamp
AlertRapidCorridor ==
    [customer |-> CustomerPep,
     transactions |-> << Txn(250000, "in", "cp1", "IN", Ts(10)),
                         Txn(240000, "out", "cp2", "IN", Ts(12)),
                         Txn(900, "out", None, "IR", BadTs) >>,
     risk_rating |-> "high"]

Alerts == {AlertEmpty, AlertRapidCorridor}

-----------------------------------------------------------------------------
(* evidence.py: build_decision_dataset *)

\* the loop over txns: a str timestamp is replaced in place by the parsed
\* datetime, or by None when fromisoformat raises ValueError
parse_timestamp(ts) ==
    IF ts.kind = "str" THEN (IF ts.h >= 0 THEN Dt(ts.h) ELSE NoTs) ELSE ts

parse_transactions(txns) ==
    [i \in 1..Len(txns) |-> [txns[i] EXCEPT !.timestamp = parse_timestamp(@)]]

SetMin(S) == CHOOSE x \in S : \A y \in S : x <= y
SetMax(S) == CHOOSE x \in S : \A y \in S : x >= y

build_decision_dataset(alert) ==
    LET txns == parse_transactions(alert.transactions)
        timestamps == {txns[i].timestamp.h : i \in {j \in 1..Len(txns) : txns[j].timestamp.kind = "datetime"}}
        start_ts == IF timestamps # {} THEN Dt(SetMin(timestamps)) ELSE NoTs
        end_ts   == IF timestamps # {} THEN Dt(SetMax(timestamps)) ELSE NoTs
        \* (end_ts - start_ts).total_seconds() / 86400.0, in hundredths of a day
        period_days == IF timestamps # {} THEN ((end_ts.h - start_ts.h) * 100) \div 24 ELSE 0
    IN  [customer |-> alert.customer,
         transactions |-> txns,
         start_ts |-> start_ts,
         end_ts |-> end_ts,
         period_days |-> period_days,
         total_amount |-> SumSeq([i \in 1..Len(txns) |-> txns[i].amount]),
         unique_counterparties |-> Cardinality({txns[i].counterparty : i \in 1..Len(txns)}),
         risk_rating |-> alert.risk_rating]

\* serialize_for_json: datetimes become isoformat strings
serialize_timestamp(ts) == IF ts.kind = "datetime" THEN Ts(ts.h) ELSE ts

serialize_for_json(decision_data) ==
    [decision_data EXCEPT
        !.transactions = [i \in 1..Len(@) |-> [@[i] EXCEPT !.timestamp = serialize_timestamp(@)]],
        !.start_ts = serialize_timestamp(@),
        !.end_ts = serialize_timestamp(@)]

-----------------------------------------------------------------------------
(* rules.py: evaluate_rules *)

RULE_VERSION == "v0.1"

StructuringCutoff == 100000     \* amount < 100000
StructuringMinCount_mut == 20 + 1
StructuringMinCount == 20       \* len(small_txns) >= 20
StructuringMaxDays == 10        \* period_days <= 10
RapidMaxHours_mut == 6 + 1
RapidMaxHours == 6              \* 0 <= delta_hours <= 6
HighRiskCountries == {"IR", "KP", "SY", "RU"}

RuleIds == {"AML-001", "AML-017", "AML-021"}

EvidenceBlock(rule_id, rule_name, confidence, evidence) ==
    [rule_id |-> rule_id, rule_name |-> rule_name, confidence_score |-> confidence,
     evidence |-> evidence, rule_version |-> RULE_VERSION]

evaluate_rules(decision_data) ==
    LET txns == decision_data.transactions
        idx == 1..Len(txns)
        small == {i \in idx : txns[i].amount < StructuringCutoff}
        ruleA == IF Cardinality(small) >= StructuringMinCount
                    /\ decision_data.period_days <= StructuringMaxDays * 100
                 THEN << EvidenceBlock("AML-001", "Structuring - Sub-Threshold Aggregation", 82,
                            << <<"transactions in window", Cardinality(small), decision_data.period_days>>,
                               <<"average amount", decision_data.total_amount \div Max(Len(txns), 1)>>,
                               <<"unique counterparties", decision_data.unique_counterparties>> >>) >>
                 ELSE <<>>
        outbound == {i \in idx : txns[i].direction = "out" /\ txns[i].timestamp.kind = "datetime"}
        inbound  == {i \in idx : txns[i].direction = "in" /\ txns[i].timestamp.kind = "datetime"}
        last_in   == SetMax({txns[i].timestamp.h : i \in inbound})
        first_out == SetMin({txns[i].timestamp.h : i \in outbound})
        delta_hours == first_out - last_in
        ruleB == IF inbound # {} /\ outbound # {} /\ 0 <= delta_hours /\ delta_hours <= RapidMaxHours
                 THEN << EvidenceBlock("AML-017", "Rapid Fund Movement", 79,
                            << <<"outbound within hours", delta_hours>>,
                               <<"no holding period">> >>) >>
                 ELSE <<>>
        risky == {i \in idx : txns[i].country \in HighRiskCountries}
        ruleC == IF risky # {}
                 THEN << EvidenceBlock("AML-021", "High-Risk Corridor", 70,
                            << <<"high-risk transactions", Cardinality(risky)>> >>) >>
                 ELSE <<>>
        evidence_blocks == ruleA \o ruleB \o ruleC
    IN  [evidence_blocks |-> evidence_blocks,
         risk_score |-> SumSeq([i \in 1..Len(evidence_blocks) |-> evidence_blocks[i].confidence_score])]

\* the blocks as evaluate_rules returns them at clock reading `now`: each
\* carries "triggered_at": dt.datetime.utcnow().isoformat() + "Z"
stamp_blocks(evidence_blocks, now) ==
    [i \in 1..Len(evidence_blocks) |-> evidence_blocks[i] @@ [triggered_at |-> now]]

-----------------------------------------------------------------------------
(* risk_engine.py *)

RiskMedium == 30
RiskHigh == 60
RiskCritical == 85
RiskSmallAmount == 10000        \* structuring factor counts amount < 10000

\* _normalize_score without the clamp
normalize_score_mut(score) == score

normalize_score(score) == Max(0, Min(100 * 100, score))

\* _derive_level with the tests the wrong way round: the lowest threshold
\* reached decides, and it is given the name of the next level
derive_level_mut(score) ==
    IF score >= RiskMedium * 100 THEN "HIGH"
    ELSE "LOW"

derive_level(score) ==
    IF score >= RiskCritical * 100 THEN "CRITICAL"
    ELSE IF score >= RiskHigh * 100 THEN "HIGH"
    ELSE IF score >= RiskMedium * 100 THEN "MEDIUM"
    ELSE "LOW"

\* a scorer that weighs how recently the rules triggered
assess_risk_mut(decision_data, evidence_blocks) ==
    LET recency == SumSeq([i \in 1..Len(evidence_blocks) |-> evidence_blocks[i].triggered_at])
        score == normalize_score(1000 * recency)
    IN  [risk_score |-> score,
         risk_level |-> derive_level(score),
         contributing_factors |-> [recency |-> recency],
         rationale |-> << <<"Recency factor", recency>> >>]

assess_risk(decision_data, evidence_blocks) ==
    LET txns == decision_data.transactions
        n == Len(txns)
        period_days == Max(decision_data.period_days, 100)
        \* velocity = len(txns) / period_days; velocity_score = min(40.0, velocity * 4.0)
        velocity_score == Min(4000, (n * 4 * 100 * 100) \div period_days)
        small == {i \in 1..n : txns[i].amount < RiskSmallAmount}
        structuring_score == IF n > 0 THEN Min(3000, (Cardinality(small) * 3000) \div n) ELSE 0
        high_risk_rules == {evidence_blocks[i].rule_id : i \in {j \in 1..Len(evidence_blocks) :
                                                        evidence_blocks[j].rule_id = "AML-021"}}
        jurisdiction_score == IF high_risk_rules # {} THEN 2500 ELSE 500
        pep_score == IF decision_data.customer.pep_flags # <<>> THEN 3000 ELSE 500
        \* total_amount / 1_000_000 in hundredths is total_amount / 10000
        historical_score == 1000 + Min(3000, decision_data.unique_counterparties * 200
                                             + decision_data.total_amount \div 10000)
        weighted_sum == (velocity_score * 22 + structuring_score * 20 + jurisdiction_score * 18
                         + pep_score * 20 + historical_score * 20) \div 100
        score == normalize_score(weighted_sum)
        \* "{x:.1f}": x rounded to tenths
        f1(x) == (x + 5) \div 10
    IN  [risk_score |-> score,
         risk_level |-> derive_level(score),
         contributing_factors |->
            [transaction_velocity |-> velocity_score,
             structuring_pattern |-> structuring_score,
             jurisdiction_risk |-> jurisdiction_score,
             pep_involvement |-> pep_score,
             historical_deviation |-> historical_score],
         \* the five f-strings, each as its label and the values it interpolates
         rationale |->
            << <<"Velocity factor", f1(velocity_score), n, f1(period_days)>>,
               <<"Structuring factor", f1(structuring_score)>>,
               <<"Jurisdiction factor", f1(jurisdiction_score), high_risk_rules # {}>>,
               <<"PEP factor", f1(pep_score), decision_data.customer.pep_flags # <<>>>>,
               <<"Historical deviation", f1(historical_score),
                 decision_data.unique_counterparties, decision_data.total_amount>> >>]

-----------------------------------------------------------------------------
(* evidence.py: build_evidence_pack *)

\* datetime.isoformat() of a timestamp, None when there is none
isoformat(ts) == IF ts.kind = "none" THEN Null ELSE Ts(ts.h)

build_evidence_pack(decision_data, evidence_blocks) ==
    [summary |->
        [risk_rating |-> decision_data.risk_rating,
         period_start |-> isoformat(decision_data.start_ts),
         period_end |-> isoformat(decision_data.end_ts),
         transaction_count |-> Len(decision_data.transactions),
         total_amount |-> decision_data.total_amount,
         unique_counterparties |-> decision_data.unique_counterparties],
     customer_profile |-> mask_pii(decision_data.customer),
     evidence_blocks |-> evidence_blocks]

-----------------------------------------------------------------------------
(* Python str() of the values the f-strings interpolate *)

Digits == <<"0", "1", "2", "3", "4", "5", "6", "7", "8", "9">>

RECURSIVE IntStr(_)
IntStr(n) == IF n < 10 THEN Digits[n + 1] ELSE IntStr(n \div 10) \o Digits[(n % 10) + 1]

\* an ISO timestamp renders as "h<hours>", None as "None"
FmtTs(v) == IF v = Null THEN "None" ELSE "h" \o IntStr(v.h)

-----------------------------------------------------------------------------
(* evidence.py: mask_pii on a JSON value of any shape.  A value carries its *)
(* Python type: JDict of a function from keys to values, JList of a        *)
(* sequence of values, JStr, JInt, JNone.                                  *)

JDict(items) == [dict |-> items]
JList(items) == [list |-> items]
JStr(s) == [str |-> s]
JInt(n) == [int |-> n]
JNone == [none |-> TRUE]

\* _mask_value on a scalar: "if not value: return value" lets None, "" and 0
\* through; otherwise the result is the masked str(value), a str
mask_value_json(value) ==
    IF value = JNone \/ value = JStr("") \/ value = JInt(0) THEN value
    ELSE JStr(mask_value(IF "int" \in DOMAIN value THEN IntStr(value.int) ELSE value.str))

RECURSIVE mask_pii_json(_)
mask_pii_json(obj) ==
    IF "dict" \in DOMAIN obj
    THEN JDict([k \in DOMAIN obj.dict |->
                   IF k \in PII_FIELDS THEN mask_value_json(obj.dict[k])
                   ELSE mask_pii_json(obj.dict[k])])
    ELSE IF "list" \in DOMAIN obj
    THEN JList([i \in 1..Len(obj.list) |-> mask_pii_json(obj.list[i])])
    ELSE obj

-----------------------------------------------------------------------------
(* llm.py *)

get(d, k) == IF k \in DOMAIN d THEN d[k] ELSE None

\* _generate_mock_narrative
generate_mock_narrative(narrative_dataset) ==
    LET summary == narrative_dataset.summary
        evidence_blocks == narrative_dataset.evidence_blocks
        rule_ids == [i \in 1..Len(evidence_blocks) |-> evidence_blocks[i].rule_id]
    IN  [subject_information |->
            "Customer exhibits activity inconsistent with declared profile during "
            \o FmtTs(summary.period_start) \o " to " \o FmtTs(summary.period_end),
         account_details |->
            "Account handled " \o IntStr(summary.transaction_count)
            \o " transactions totaling " \o IntStr(summary.total_amount)
            \o " across " \o IntStr(summary.unique_counterparties) \o " counterparties.",
         \* summary has no 'period_days' key: the default 'N/A' is always used
         alert_summary |->
            "Alert triggered due to velocity and counterparty concentration over N/A days.",
         transaction_pattern_analysis |->
            "Patterns show compressed inbound followed by outbound movement consistent with structuring and layering.",
         suspicious_behaviour_indicators |->
            join("; ", [i \in 1..Len(evidence_blocks) |-> evidence_blocks[i].rule_name]),
         supporting_evidence |-> join(", ", rule_ids),
         regulatory_justification |->
            "Activity meets reporting thresholds and typologies referenced in AML-001/AML-017 guidance.",
         investigator_assessment |->
            "Narrative compiled with masked PII and bounded evidence set.",
         conclusion_recommendation |->
            "File SAR and monitor for escalation; consider enhanced due diligence.",
         confidence_level |-> 82]

\* a JSON value that is neither a string nor falsy (a list, an object)
NonStr == "<list>"

\* what the text-generation provider may answer with
NarrativeComplete ==
    [subject_information |-> "Retail customer, account opened 2019, salaried profile.",
     account_details |-> "Savings account 12****89 with sudden turnover growth.",
     alert_summary |-> "Velocity alert raised by transaction monitoring on 42 credits.",
     transaction_pattern_analysis |-> "Many small credits\nfollowed by one large debit within hours.",
     suspicious_behaviour_indicators |-> "Structuring below threshold; rapid movement of funds.",
     supporting_evidence |-> "See triggered rules and linked transactions 20240101.",
     regulatory_justification |-> "Meets SAR filing criteria under the AML guidance in force.",
     investigator_assessment |-> "Activity is inconsistent with the declared customer profile.",
     conclusion_and_recommendation |-> "File SAR; apply enhanced due diligence."]

NarrativePartial ==
    [subject_information |-> "  \n ",
     account_details |-> "",
     alert_summary |-> " Short. ",
     supporting_evidence |-> "",
     regulatory_justification |-> None]
    @@ ("Supporting Evidence" :> "Cited by section name.")

NarrativeNonString ==
    [subject_information |-> "Retail customer.",
     account_details |-> NonStr]

LLMNarratives == {NarrativeComplete, NarrativePartial, NarrativeNonString}

\* config.py: USE_MOCK_LLM defaults to "false"
USE_MOCK_LLM == FALSE

\* outcome of the provider call inside generate_narrative
\*   generated    the provider answered with a JSON object
\*   fallback     requests.RequestException / ValueError, caught inside
\*   raise        any other exception, propagated to run_pipeline
LLMOutcomes ==
    {[kind |-> "fallback", narrative |-> <<>>],
     [kind |-> "raise", narrative |-> <<>>]}
    \cup {[kind |-> "generated", narrative |-> n] : n \in LLMNarratives}

OLLAMA_MODEL == "llama3.1"

\* the requests.post calls one call of generate_narrative makes: none in
\* mock mode (line 52 returns), one at line 75 otherwise
provider_posts_mut(llm, force_mock) == 1

provider_posts(llm, force_mock) == IF USE_MOCK_LLM \/ force_mock THEN 0 ELSE 1

\* generate_narrative: (narrative, llm_meta); with force_mock = FALSE it is
\* defined for llm.kind # "raise"
generate_narrative(narrative_dataset, llm, force_mock) ==
    IF USE_MOCK_LLM \/ force_mock
    THEN [narrative |-> generate_mock_narrative(narrative_dataset),
          llm_meta |-> [model |-> "mock"]]
    ELSE IF llm.kind = "generated"
    THEN [narrative |-> llm.narrative, llm_meta |-> [model |-> OLLAMA_MODEL]]
    ELSE [narrative |-> generate_mock_narrative(narrative_dataset),
          llm_meta |-> [model |-> OLLAMA_MODEL \o "_fallback"]]

-----------------------------------------------------------------------------
(* sar_formatter.py *)

SECTION_ORDER ==
    << "Subject Information", "Account Details", "Alert Summary",
       "Transaction Pattern Analysis", "Suspicious Behaviour Indicators",
       "Supporting Evidence", "Regulatory Justification",
       "Investigator Assessment", "Conclusion & Recommendation" >>

Lower ==
    [c \in {"A","B","C","D","E","F","G","H","I","J","K","L","M","N","O","P","Q",
            "R","S","T","U","V","W","X","Y","Z"} |->
       CASE c = "A" -> "a" [] c = "B" -> "b" [] c = "C" -> "c" [] c = "D" -> "d"
         [] c = "E" -> "e" [] c = "F" -> "f" [] c = "G" -> "g" [] c = "H" -> "h"
         [] c = "I" -> "i" [] c = "J" -> "j" [] c = "K" -> "k" [] c = "L" -> "l"
         [] c = "M" -> "m" [] c = "N" -> "n" [] c = "O" -> "o" [] c = "P" -> "p"
         [] c = "Q" -> "q" [] c = "R" -> "r" [] c = "S" -> "s" [] c = "T" -> "t"
         [] c = "U" -> "u" [] c = "V" -> "v" [] c = "W" -> "w" [] c = "X" -> "x"
         [] c = "Y" -> "y" [] c = "Z" -> "z"]

\* section.lower().replace(" ", "_").replace("&", "and")
section_key(section) == translate(Lower @@ (" " :> "_") @@ ("&" :> "and"), section)

Truthy(v) == v # None /\ v # ""

\* llm_sections.get(key) or llm_sections.get(section) or ""
section_source(llm_sections, section) ==
    LET a == get(llm_sections, section_key(section))
        b == get(llm_sections, section)
    IN  IF Truthy(a) THEN a ELSE IF Truthy(b) THEN b ELSE ""

\* as_paragraph without the placeholder for an empty text
as_paragraph_mut(text) == replace_newline(strip(text))

\* _as_paragraph, for a str argument
as_paragraph(text) ==
    LET t == strip(text)
    IN  IF t # "" THEN replace_newline(t) ELSE "Not provided."

\* _as_paragraph calls .strip() on its argument: AttributeError for a
\* truthy value that is not a str
format_raises(llm_sections) ==
    \E i \in 1..Len(SECTION_ORDER) : section_source(llm_sections, SECTION_ORDER[i]) = NonStr

\* the sections dict, in insertion order: sections[i] belongs to SECTION_ORDER[i]
format_sar_narrative(llm_sections, risk_score, risk_level, confidence_level, evidence_citations, contributing_factors) ==
    [sections |-> [i \in 1..Len(SECTION_ORDER) |->
                      [name |-> SECTION_ORDER[i],
                       text |-> as_paragraph(section_source(llm_sections, SECTION_ORDER[i]))]],
     risk_score |-> risk_score,
     risk_level |-> risk_level,
     confidence_level |-> confidence_level,
     evidence_citations |-> evidence_citations,
     contributing_factors |-> contributing_factors]

\* narrative_as_text
narrative_as_text(formatted) ==
    join("\n", [i \in 1..Len(SECTION_ORDER) + 1 |->
        IF i <= Len(SECTION_ORDER)
        THEN SECTION_ORDER[i] \o "\n" \o formatted.sections[i].text \o "\n"
        ELSE "Risk Level: " \o formatted.risk_level
             \o " | Risk Score: " \o IntStr(formatted.risk_score)
             \o " | Confidence: " \o IntStr(formatted.confidence_level)])

-----------------------------------------------------------------------------
(* explainability.py *)

StatementMax == 240     \* text[:240]

\* evidence_by_rule: dict keyed by rule_id, in first-insertion order, the
\* last block of a rule id winning
evidence_by_rule(evidence_blocks) ==
    LET first == {i \in 1..Len(evidence_blocks) :
                    \A j \in 1..(i - 1) : evidence_blocks[j].rule_id # evidence_blocks[i].rule_id}
        last(i) == SetMax({j \in 1..Len(evidence_blocks) :
                             evidence_blocks[j].rule_id = evidence_blocks[i].rule_id})
        keys == SelectSeqIdx(evidence_blocks, first, 1)
    IN  [k \in 1..Len(keys) |->
            evidence_blocks[last(CHOOSE i \in first : evidence_blocks[i].rule_id = keys[k].rule_id)]]

\* build_explainability_trace that links every section to the first rule only
build_explainability_trace_mut(formatted_narrative, evidence_blocks) ==
    LET by_rule == evidence_by_rule(evidence_blocks)
        sections == formatted_narrative.sections
    IN  IF by_rule = <<>> THEN <<>>
        ELSE [k \in 1..Len(sections) |->
                [section |-> sections[k].name,
                 statement |-> Prefix(sections[k].text, StatementMax),
                 supporting_evidence_id |-> by_rule[1].rule_id,
                 rule_triggered |-> by_rule[1].rule_name,
                 confidence_weight |-> by_rule[1].confidence_score,
                 evidence_details |-> by_rule[1].evidence]]

build_explainability_trace(formatted_narrative, evidence_blocks) ==
    LET by_rule == evidence_by_rule(evidence_blocks)
        sections == formatted_narrative.sections
        nr == Len(by_rule)
    IN  [k \in 1..(Len(sections) * nr) |->
            LET s == sections[((k - 1) \div nr) + 1]
                e == by_rule[((k - 1) % nr) + 1]
            IN  [section |-> s.name,
                 statement |-> Prefix(s.text, StatementMax),
                 supporting_evidence_id |-> e.rule_id,
                 rule_triggered |-> e.rule_name,
                 confidence_weight |-> e.confidence_score,
                 evidence_details |-> e.evidence]]

-----------------------------------------------------------------------------
(* validation_v2.py *)

REQUIRED_SECTIONS == SECTION_ORDER

ClarityMinLen == 40     \* len(text_str) < 40
PiiMinDigits == 6       \* len(token) >= 6

DigitChars == {"0", "1", "2", "3", "4", "5", "6", "7", "8", "9"}

\* str.isdigit()
isdigit(s) == Len(s) > 0 /\ \A i \in 1..Len(s) : CharAt(s, i) \in DigitChars

\* str.split(): the maximal runs of non-whitespace characters, in order
split(s) ==
    LET solid(i) == CharAt(s, i) \notin Whitespace
        starts == {i \in 1..Len(s) : solid(i) /\ (i = 1 \/ ~solid(i - 1))}
        stop(i) == CHOOSE j \in i..Len(s) :
                      /\ \A k \in i..j : solid(k)
                      /\ (j = Len(s) \/ ~solid(j + 1))
        nth(k) == CHOOSE i \in starts : Cardinality({j \in starts : j < i}) = k - 1
    IN  [k \in 1..Cardinality(starts) |-> SubSeq(s, nth(k), stop(nth(k)))]

section_text(sections, sec) ==
    LET hit == {i \in 1..Len(sections) : sections[i].name = sec}
    IN  IF hit = {} THEN None ELSE sections[CHOOSE i \in hit : TRUE].text

RECURSIVE structural_errors(_, _)
structural_errors(sections, i) ==
    IF i > Len(REQUIRED_SECTIONS) THEN <<>>
    ELSE LET sec == REQUIRED_SECTIONS[i]
             text == section_text(sections, sec)
         IN  (IF text = None THEN << <<"Missing section", sec>> >>
              ELSE IF strip(text) = "" THEN << <<"Empty section", sec>> >>
              ELSE <<>>)
             \o structural_errors(sections, i + 1)

RECURSIVE clarity_warnings(_, _)
clarity_warnings(sections, i) ==
    IF i > Len(sections) THEN <<>>
    ELSE LET text == sections[i].text
             tokens == split(text)
         IN  (IF Len(text) < ClarityMinLen
              THEN << <<"Narrative clarity low in section", sections[i].name>> >> ELSE <<>>)
             \o (IF Len(text) > 6
                    /\ (\E k \in 1..Len(text) : CharAt(text, k) \in DigitChars)
                    /\ (\E t \in 1..Len(tokens) : isdigit(tokens[t]) /\ Len(tokens[t]) >= PiiMinDigits)
                 THEN << <<"Possible unmasked PII detected in", sections[i].name>> >> ELSE <<>>)
             \o clarity_warnings(sections, i + 1)

RECURSIVE coverage_warnings(_, _)
coverage_warnings(trace, i) ==
    IF i > Len(REQUIRED_SECTIONS) THEN <<>>
    ELSE (IF \E t \in 1..Len(trace) : trace[t].section = REQUIRED_SECTIONS[i]
          THEN <<>> ELSE << <<"No explainability coverage for", REQUIRED_SECTIONS[i]>> >>)
         \o coverage_warnings(trace, i + 1)

\* validate_v2 that lets a warning fail the validation
validate_v2_mut(formatted_narrative, explainability_trace) ==
    LET sections == formatted_narrative.sections
        errors == structural_errors(sections, 1)
                  \o (IF formatted_narrative.evidence_citations = <<>>
                      THEN << <<"No evidence citations provided">> >> ELSE <<>>)
        warnings ==
            (IF \E t \in 1..Len(explainability_trace) :
                    explainability_trace[t].supporting_evidence_id = ""
             THEN << <<"Some statements lack evidence ids">> >> ELSE <<>>)
            \o clarity_warnings(sections, 1)
            \o coverage_warnings(explainability_trace, 1)
        passed == Len(errors) = 0 /\ Len(warnings) = 0
    IN  [passed |-> passed,
         errors |-> errors,
         warnings |-> warnings,
         summary |-> IF passed THEN "Validation passed" ELSE "Validation requires attention"]

validate_v2(formatted_narrative, explainability_trace) ==
    LET sections == formatted_narrative.sections
        errors == structural_errors(sections, 1)
                  \o (IF formatted_narrative.evidence_citations = <<>>
                      THEN << <<"No evidence citations provided">> >> ELSE <<>>)
        warnings ==
            (IF \E t \in 1..Len(explainability_trace) :
                    explainability_trace[t].supporting_evidence_id = ""
             THEN << <<"Some statements lack evidence ids">> >> ELSE <<>>)
            \o clarity_warnings(sections, 1)
            \o coverage_warnings(explainability_trace, 1)
        passed == Len(errors) = 0
    IN  [passed |-> passed,
         errors |-> errors,
         warnings |-> warnings,
         summary |-> IF passed THEN "Validation passed" ELSE "Validation requires attention"]

-----------------------------------------------------------------------------
(* main.py: helpers of the pipeline *)

\* _confidence_from_evidence: mean confidence, 0.5 without evidence
confidence_from_evidence(evidence_blocks) ==
    IF evidence_blocks = <<>> THEN 50
    ELSE SumSeq([i \in 1..Len(evidence_blocks) |-> evidence_blocks[i].confidence_score])
         \div Len(evidence_blocks)

\* _hallucination_guard: TRUE when it raises HTTPException(400)
\*   citations       formatted_narrative.get("evidence_citations", [])
\*   evidence_blocks the blocks triggered in this run
hallucination_guard_flip(evidence_citations, evidence_blocks) ==
    LET citations == Range(evidence_citations)
        rule_ids == {evidence_blocks[i].rule_id : i \in 1..Len(evidence_blocks)}
    IN  citations = {} \/ ~(rule_ids \subseteq citations)

\* the guard that lets every narrative through
hallucination_guard_skip(evidence_citations, evidence_blocks) == FALSE

hallucination_guard_mut(evidence_citations, evidence_blocks) ==
    LET citations == Range(evidence_citations)
        rule_ids == {evidence_blocks[i].rule_id : i \in 1..Len(evidence_blocks)}
    IN  ~(citations \subseteq rule_ids)

hallucination_guard(evidence_citations, evidence_blocks) ==
    LET citations == Range(evidence_citations)
        rule_ids == {evidence_blocks[i].rule_id : i \in 1..Len(evidence_blocks)}
    IN  citations = {} \/ ~(citations \subseteq rule_ids)

-----------------------------------------------------------------------------
(* review_workflow.py *)

VALID_STATES == <<"DRAFT", "REVIEW", "APPROVED", "SUBMITTED", "REJECTED", "VALIDATION_FAILED">>

TRANSITIONS_mut ==
    [DRAFT |-> <<"REVIEW", "VALIDATION_FAILED">>,
     REVIEW |-> <<"APPROVED", "REJECTED", "SUBMITTED">>,
     APPROVED |-> <<"SUBMITTED">>,
     REJECTED |-> <<"DRAFT">>,
     VALIDATION_FAILED |-> <<"DRAFT">>]

TRANSITIONS ==
    [DRAFT |-> <<"REVIEW", "VALIDATION_FAILED">>,
     REVIEW |-> <<"APPROVED", "REJECTED">>,
     APPROVED |-> <<"SUBMITTED">>,
     REJECTED |-> <<"DRAFT">>,
     VALIDATION_FAILED |-> <<"DRAFT">>]

\* target in TRANSITIONS.get(current, [])
\* can_transition that reads the row of DRAFT for a status without a row
can_transition_mut(current, target) ==
    target \in Range(TRANSITIONS[IF current \in DOMAIN TRANSITIONS THEN current ELSE "DRAFT"])

can_transition(current, target) ==
    current \in DOMAIN TRANSITIONS /\ target \in Range(TRANSITIONS[current])

\* record_history: appends to the list it was given, or to a new list when
\* that one is None or empty.  `same` tells whether the returned list is the
\* very object that was passed in.
record_history(history, user, action, comment) ==
    [list |-> Append(history, [user |-> user, action |-> action, comment |-> comment]),
     same |-> history # <<>>]

-----------------------------------------------------------------------------
(* models.py / db.py: rows and the ORM session *)

CaseIds == 1..MaxCases

\* the worker threads of the server
Threads == 1..MaxThreads

\* Case(id=case_id, alert_json=alert, status="INGESTED") after the INSERT:
\* explicit values, column defaults (created_at is the clock reading at
\* that moment), NULL elsewhere
NewCase(alert, created_at) ==
    [created_at |-> created_at,
     status |-> "INGESTED",
     analyst_role |-> "analyst",
     alert_json |-> alert,
     decision_data |-> Null,
     evidence_data |-> Null,
     rag_context |-> Null,
     validation_results |-> Null,
     validation_v2_results |-> Null,
     draft_narrative |-> Null,
     final_narrative |-> Null,
     sar_document |-> None,
     risk_level |-> "LOW",
     confidence_level |-> 0,
     explainability_trace |-> Null,
     review_history |-> <<>>,
     version |-> 1,
     analyst_comment |-> None,
     risk_score |-> 0]

\* session.commit() after attribute assignments on a loaded Case: the unit
\* of work emits UPDATE cases SET <the dirty attributes> WHERE id = ...; the
\* other columns keep what the table holds at that moment.
\*   row      the row in the table at commit time
\*   assigned attribute -> assigned value
\*   dirty    the attributes the UPDATE sets
orm_update(row, assigned, dirty) ==
    [col \in DOMAIN row |-> IF col \in dirty THEN assigned[col] ELSE row[col]]

\* an assigned attribute is dirty when its value differs from the value
\* remembered at its first assignment (committed_state)
dirty_attrs(assigned, snapshot) ==
    {col \in DOMAIN assigned : assigned[col] # snapshot[col]}

\* the remembered old value of review_history: the loaded list object.  When
\* record_history appended to that very object, the remembered value has
\* grown with it and equals the assigned one.
history_snapshot(loaded, h) == IF h.same THEN h.list ELSE loaded.review_history

-----------------------------------------------------------------------------
(* audit.py *)

\* log_event storing the payload as it was passed
mask_payload_mut(event_type, payload) == payload

\* mask_pii(payload) for the payload shapes the callers pass
mask_payload(event_type, payload) ==
    CASE event_type = "INGESTED" -> [alert |-> mask_alert(payload.alert)]
      [] event_type = "ENRICHED" ->
            [decision_data |-> [payload.decision_data EXCEPT !.customer = mask_pii(@)]]
      [] event_type = "EVIDENCE_BUILT" ->
            [narrative_dataset |-> [payload.narrative_dataset EXCEPT !.customer_profile = mask_pii(@)]]
      [] event_type \in {"SUBMITTED", "APPROVED", "REJECTED"} -> mask_pii(payload)
      [] OTHER -> payload

\* dt.datetime.utcnow().  Time is counted in readings of the clock taken
\* for audit events: the clock shows one more than the number of readings
\* taken so far, those of the stored events and those of the events a
\* worker thread has stamped and not yet inserted.  So the clock never
\* goes back and no two events get the same reading.
utcnow(log) == Len(log) + Cardinality({t \in Threads : req[t].pc = "log"}) + 1

\* session.add(event); session.commit() with the event built at lines 8-14
insert_event_mut(log, case_id, event_type, timestamp, payload) ==
    <<[case_id |-> case_id, event_type |-> event_type, timestamp |-> timestamp,
       payload |-> mask_payload(event_type, payload)]>> \o log

insert_event(log, case_id, event_type, timestamp, payload) ==
    Append(log, [case_id |-> case_id, event_type |-> event_type, timestamp |-> timestamp,
                 payload |-> mask_payload(event_type, payload)])

\* log_event that writes no RISK_ASSESSED event
log_event_mut(log, case_id, event_type, payload) ==
    IF event_type = "RISK_ASSESSED" THEN log
    ELSE insert_event(log, case_id, event_type, utcnow(log), payload)

log_event(log, case_id, event_type, payload) ==
    insert_event(log, case_id, event_type, utcnow(log), payload)

\* the rows of the case ordered by timestamp ascending; rows with equal
\* timestamps come in insertion order
RECURSIVE order_by_timestamp(_)
order_by_timestamp(events) ==
    IF events = <<>> THEN <<>>
    ELSE LET least == SetMin({events[i].timestamp : i \in 1..Len(events)})
             first == SetMin({i \in 1..Len(events) : events[i].timestamp = least})
         IN  <<events[first]>>
             \o order_by_timestamp(SelectSeqIdx(events, (1..Len(events)) \ {first}, 1))

\* datetime.isoformat() + "Z" of a clock reading t: the string "t<t>Z"
iso_z(t) == "t" \o IntStr(t) \o "Z"

get_audit_timeline(log, case_id) ==
    LET events == order_by_timestamp(
                      SelectSeqIdx(log, {i \in 1..Len(log) : log[i].case_id = case_id}, 1))
    IN  [i \in 1..Len(events) |->
            [timestamp |-> iso_z(events[i].timestamp),
             event_type |-> events[i].event_type,
             payload |-> events[i].payload]]

-----------------------------------------------------------------------------
(* main.py: run_pipeline *)

RagDoc == [doc_id |-> "aml_guidance", text |-> "Structuring typology guidance.", similarity |-> 71]

\* outcome of rag_retriever.retrieve: a ranked list, or an exception of the
\* vector store
RagOutcomes == {[kind |-> "ok", docs |-> <<RagDoc>>], [kind |-> "raise", docs |-> <<>>]}

PipelineInputs == [alert : Alerts, llm : LLMOutcomes, rag : RagOutcomes]

\* a structuring alert: `count` inbound transactions of `amount` each, spread
\* evenly over `span` hours, to one counterparty or to one counterparty each;
\* no PEP flag, no high-risk country
AlertStructuring(count, amount, span, distinct) ==
    [customer |-> CustomerPlain,
     transactions |->
        [i \in 1..count |->
            Txn(amount, "in", IF distinct THEN "cp" \o IntStr(i) ELSE "cp1", "IN",
                Ts(((i - 1) * span) \div (count - 1)))],
     risk_rating |-> "medium"]

\* the structuring scenario: 25 transactions of 5,000 each within a five-day
\* window (5 * 24 hours) to 25 counterparties, and the same transactions at
\* one instant to one counterparty
ScenarioAlerts ==
    {AlertStructuring(25, 5000, 5 * 24, TRUE), AlertStructuring(25, 5000, 0, FALSE)}

\* the runs of the structuring scenario
ScenarioInputs == [alert : ScenarioAlerts, llm : LLMOutcomes, rag : RagOutcomes]

\* the values run_pipeline computes, lines 58-107, for one alert and one
\* behaviour of its two collaborators.  Each local operator is the rest of
\* the function after one more local variable of the code has its value.
pipeline_values(in) ==
    LET validated(decision_data, evidence_blocks, risk_assessment, narrative_dataset,
                  gen, confidence_level, formatted, explainability_trace, validation) ==
            [decision_data_json |-> serialize_for_json(decision_data),
             evidence_blocks |-> evidence_blocks,
             risk_assessment |-> risk_assessment,
             narrative_dataset |-> narrative_dataset,
             gen |-> gen,
             format_raises |-> format_raises(gen.narrative),
             formatted |-> formatted,
             confidence_level |-> confidence_level,
             explainability_trace |-> explainability_trace,
             validation |-> validation,
             guard_raises |-> hallucination_guard(formatted.evidence_citations, evidence_blocks),
             sar_text |-> narrative_as_text(formatted),
             validation_status |-> IF validation.passed THEN "DRAFT" ELSE "VALIDATION_FAILED"]
        traced(decision_data, evidence_blocks, risk_assessment, narrative_dataset,
               gen, confidence_level, formatted, explainability_trace) ==
            validated(decision_data, evidence_blocks, risk_assessment, narrative_dataset,
                      gen, confidence_level, formatted, explainability_trace,
                      validate_v2(formatted, explainability_trace))
        formatted_(decision_data, evidence_blocks, risk_assessment, narrative_dataset,
                   gen, confidence_level, formatted) ==
            traced(decision_data, evidence_blocks, risk_assessment, narrative_dataset,
                   gen, confidence_level, formatted,
                   build_explainability_trace(formatted, evidence_blocks))
        \* evidence_citations = [b.get("rule_id") for b in evidence_blocks]
        generated(decision_data, evidence_blocks, risk_assessment, narrative_dataset,
                  gen, confidence_level) ==
            formatted_(decision_data, evidence_blocks, risk_assessment, narrative_dataset,
                gen, confidence_level,
                format_sar_narrative(gen.narrative, risk_assessment.risk_score,
                    risk_assessment.risk_level, confidence_level,
                    [i \in 1..Len(evidence_blocks) |-> evidence_blocks[i].rule_id],
                    risk_assessment.contributing_factors))
        \* try: generate_narrative(...)  except Exception: force_mock=True
        packed(decision_data, evidence_blocks, risk_assessment, narrative_dataset) ==
            generated(decision_data, evidence_blocks, risk_assessment, narrative_dataset,
                generate_narrative(narrative_dataset, in.llm, in.llm.kind = "raise"),
                confidence_from_evidence(evidence_blocks))
        ruled(decision_data, evidence_blocks) ==
            packed(decision_data, evidence_blocks,
                   assess_risk(decision_data, evidence_blocks),
                   build_evidence_pack(decision_data, evidence_blocks))
        enriched(decision_data) ==
            ruled(decision_data, evaluate_rules(decision_data).evidence_blocks)
    IN  enriched(build_decision_dataset(in.alert))

\* pipeline_values, evaluated once per input
PipelineValues == [in \in PipelineInputs \cup ScenarioInputs |-> pipeline_values(in)] @@ <<>>

\* pipeline_result with the status assigned and committed before the
\* retrieval call and the formatter
pipeline_result_early(in, v, row, assigned, logs) ==
    IF in.rag.kind = "raise"
    THEN [log |-> logs.evidence_built, row |-> orm_update(row, assigned, {"status"}),
          raised |-> TRUE, detail |-> "retrieval failure"]
    ELSE IF v.format_raises
    THEN [log |-> logs.draft_generated, row |-> orm_update(row, assigned, {"status"}),
          raised |-> TRUE, detail |-> "AttributeError"]
    ELSE IF v.guard_raises
    THEN [log |-> logs.validated, row |-> row, raised |-> TRUE,
          detail |-> "400: Narrative rejected: unsupported claims detected"]
    ELSE [log |-> logs.validated, row |-> orm_update(row, assigned, DOMAIN assigned),
          raised |-> FALSE, detail |-> ""]

\* pipeline_result with the guard called after the commit
pipeline_result_mut(in, v, row, assigned, logs) ==
    IF in.rag.kind = "raise"
    THEN [log |-> logs.evidence_built, row |-> row, raised |-> TRUE, detail |-> "retrieval failure"]
    ELSE IF v.format_raises
    THEN [log |-> logs.draft_generated, row |-> row, raised |-> TRUE, detail |-> "AttributeError"]
    ELSE IF v.guard_raises
    THEN [log |-> logs.validated, row |-> orm_update(row, assigned, DOMAIN assigned),
          raised |-> TRUE, detail |-> "400: Narrative rejected: unsupported claims detected"]
    ELSE [log |-> logs.validated, row |-> orm_update(row, assigned, DOMAIN assigned),
          raised |-> FALSE, detail |-> ""]

\* where run_pipeline stops, lines 71-121: an exception of the retrieval
\* call, of the formatter or of the hallucination guard leaves the function
\* before anything is assigned to case_obj; otherwise lines 109-121 assign
\* and commit.  logs = the audit log after EVIDENCE_BUILT, DRAFT_GENERATED
\* and VALIDATED.
\* str(exc) of the guard's HTTPException is "<status_code>: <detail>".
pipeline_result(in, v, row, assigned, logs) ==
    IF in.rag.kind = "raise"
    THEN [log |-> logs.evidence_built, row |-> row, raised |-> TRUE, detail |-> "retrieval failure"]
    ELSE IF v.format_raises
    THEN [log |-> logs.draft_generated, row |-> row, raised |-> TRUE, detail |-> "AttributeError"]
    ELSE IF v.guard_raises
    THEN [log |-> logs.validated, row |-> row, raised |-> TRUE,
          detail |-> "400: Narrative rejected: unsupported claims detected"]
    ELSE [log |-> logs.validated, row |-> orm_update(row, assigned, DOMAIN assigned),
          raised |-> FALSE, detail |-> ""]

\* the provider calls of one run, main.py 71-81: none when retrieval raised
\* before generate_narrative was reached; the call in the try block; the
\* call in the except block when the first one raised
run_posts(in) ==
    IF in.rag.kind = "raise" THEN 0
    ELSE provider_posts(in.llm, FALSE)
         + (IF in.llm.kind = "raise" THEN provider_posts(in.llm, TRUE) ELSE 0)

\* run_pipeline(session, case_obj, alert) on the freshly inserted row.
\* Result: the audit log and the row afterwards, and whether an exception
\* left the function (with str(exc)).
run_pipeline(log, case_id, row, in) ==
    LET run(v) ==
        LET log1 == log_event(log, case_id, "ENRICHED", [decision_data |-> v.decision_data_json])
            log2 == log_event(log1, case_id, "RULE_TRIGGERED", [evidence_blocks |-> v.evidence_blocks])
            log3 == log_event(log2, case_id, "RISK_ASSESSED", v.risk_assessment)
            log4 == log_event(log3, case_id, "EVIDENCE_BUILT", [narrative_dataset |-> v.narrative_dataset])
            log5 == log_event(log4, case_id, "RETRIEVAL_COMPLETE", [rag_context |-> in.rag.docs])
            log6 == IF in.llm.kind = "raise"
                    THEN log_event(log5, case_id, "ERROR", [error |-> "LLM failure"])
                    ELSE log5
            log7 == log_event(log6, case_id, "DRAFT_GENERATED",
                              [llm_meta |-> v.gen.llm_meta, narrative |-> v.gen.narrative])
            log8 == log_event(log7, case_id, "VALIDATED", [validation |-> v.validation])
            \* lines 109-120, on the row inserted a moment ago: every attribute
            \* assigned is written (or rewrites the default it already holds)
            assigned ==
                [decision_data |-> v.decision_data_json,
                 evidence_data |-> v.narrative_dataset,
                 rag_context |-> in.rag.docs,
                 draft_narrative |-> v.formatted,
                 validation_results |-> v.validation,
                 validation_v2_results |-> v.validation,
                 risk_score |-> v.risk_assessment.risk_score,
                 risk_level |-> v.risk_assessment.risk_level,
                 confidence_level |-> v.confidence_level,
                 explainability_trace |-> v.explainability_trace,
                 sar_document |-> v.sar_text,
                 status |-> v.validation_status]
        IN  pipeline_result(in, v, row, assigned,
                            [evidence_built |-> log4, draft_generated |-> log7, validated |-> log8])
    IN  run(PipelineValues[in])

-----------------------------------------------------------------------------
(* main.py: responses *)

\* what the caller receives: the HTTP status code and the JSON body, which
\* is {"status"}, {"case_id", "status"}, {"results"} or {"detail"}
Response(code, body) == [code |-> code, body |-> body]

NoResponse == Response(0, [none |-> TRUE])

\* raise HTTPException(status_code, detail)
HTTPException(status_code, detail) == Response(status_code, [detail |-> detail])

-----------------------------------------------------------------------------
(* main.py: ingest_alert, batch_ingest *)

\* the part the two ingest handlers share: INSERT the case, log INGESTED,
\* run the pipeline, log ERROR when it raised
\*   state = [cases, audit, posts]; result adds the row's outcome
ingest_one(state, in) ==
    LET outcome(case_id, run) ==
            [cases |-> [c \in DOMAIN state.cases \cup {case_id} |->
                            IF c = case_id THEN run.row ELSE state.cases[c]],
             audit |-> IF run.raised
                       THEN log_event(run.log, case_id, "ERROR", [error |-> run.detail])
                       ELSE run.log,
             posts |-> [c \in DOMAIN state.cases \cup {case_id} |->
                            IF c = case_id THEN run_posts(in) ELSE state.posts[c]],
             case_id |-> case_id,
             raised |-> run.raised,
             detail |-> run.detail]
        insert(case_id) ==
            outcome(case_id,
                    run_pipeline(log_event(state.audit, case_id, "INGESTED", [alert |-> in.alert]),
                                 case_id, NewCase(in.alert, utcnow(state.audit)), in))
    IN  insert(Cardinality(DOMAIN state.cases) + 1)

ingest_alert(in) ==
    /\ Cardinality(DOMAIN cases) < MaxCases
    /\ LET respond(r) ==
               /\ cases' = r.cases
               /\ audit' = r.audit
               /\ resp' = IF r.raised
                          THEN HTTPException(500, r.detail)
                          ELSE Response(200, [case_id |-> r.case_id,
                                              status |-> r.cases[r.case_id].status])
               /\ posts' = r.posts
       IN  respond(ingest_one([cases |-> cases, audit |-> audit, posts |-> posts], in))
    /\ UNCHANGED <<guard_in, call, guard_out, req>>

\* sorted(results, key=risk_score, reverse=True): stable, descending
RECURSIVE sort_by_risk(_)
sort_by_risk(results) ==
    IF results = <<>> THEN <<>>
    ELSE LET top == SetMax({results[i].risk_score : i \in 1..Len(results)})
             first == SetMin({i \in 1..Len(results) : results[i].risk_score = top})
         IN  <<results[first]>>
             \o sort_by_risk(SelectSeqIdx(results, (1..Len(results)) \ {first}, 1))

\* the loop of batch_ingest over the alerts; inputs[i] = the i-th alert and
\* the behaviour of the collaborators during its run
RECURSIVE batch_loop(_, _, _)
batch_loop(state, inputs, i) ==
    IF i > Len(inputs)
    THEN [cases |-> state.cases, audit |-> state.audit, posts |-> state.posts, results |-> <<>>]
    ELSE LET item(r) == [case_id |-> r.case_id,
                         status |-> IF r.raised THEN "ERROR" ELSE r.cases[r.case_id].status,
                         risk_score |-> r.cases[r.case_id].risk_score]
             append(r) ==
                 [batch_loop([cases |-> r.cases, audit |-> r.audit, posts |-> r.posts], inputs, i + 1)
                     EXCEPT !.results = <<item(r)>> \o @]
         IN  append(ingest_one(state, inputs[i]))

batch_ingest(inputs) ==
    /\ Cardinality(DOMAIN cases) + Len(inputs) <= MaxCases
    /\ LET respond(r) ==
               /\ cases' = r.cases
               /\ audit' = r.audit
               /\ resp' = Response(200, [results |-> sort_by_risk(r.results)])
               /\ posts' = r.posts
       IN  respond(batch_loop([cases |-> cases, audit |-> audit, posts |-> posts], inputs, 1))
    /\ UNCHANGED <<guard_in, call, guard_out, req>>

-----------------------------------------------------------------------------
(* main.py: the lifecycle handlers *)

EditedNarrative ==
    [sections |-> << [name |-> "Subject Information", text |-> "Edited by the analyst."] >>,
     evidence_citations |-> <<"AML-001">>]

\* request bodies; <<>> is {} (also what "payload or {}" makes of no body)
SubmitPayloads == { [user |-> "asha", comment |-> "ready for review",
                      email |-> "asha@bank.example"] }
ReviewPayloads == { <<>>,
                    [role |-> "supervisor", comment |-> "narrative edited",
                     narrative |-> EditedNarrative] }
FinalizePayloads == { [user |-> "lee", phone |-> "555"] }

\* payload.get(key, default)
get_or(payload, key, default) == IF key \in DOMAIN payload THEN payload[key] ELSE default

\* main.py 240-242: the attributes submit_case assigns on the loaded object
submit_assign(loaded, payload) ==
    LET h == record_history(loaded.review_history, get_or(payload, "user", "system"),
                            "SUBMITTED", get(payload, "comment"))
    IN  [assigned |-> [status |-> "REVIEW",
                       review_history |-> h.list,
                       \* (case_obj.version or 1) + 1
                       version |-> (IF loaded.version = 0 THEN 1 ELSE loaded.version) + 1],
         snapshot |-> [status |-> loaded.status,
                       review_history |-> history_snapshot(loaded, h),
                       version |-> loaded.version]]

\* main.py 263-267
approve_assign(loaded, payload) ==
    LET h == record_history(loaded.review_history, get_or(payload, "role", "analyst"),
                            "APPROVED", get(payload, "comment"))
    IN  [assigned |-> [status |-> "APPROVED",
                       final_narrative |-> get_or(payload, "narrative", loaded.draft_narrative),
                       analyst_comment |-> get(payload, "comment"),
                       analyst_role |-> get_or(payload, "role", "analyst"),
                       review_history |-> h.list],
         snapshot |-> [status |-> loaded.status,
                       final_narrative |-> loaded.final_narrative,
                       analyst_comment |-> loaded.analyst_comment,
                       analyst_role |-> loaded.analyst_role,
                       review_history |-> history_snapshot(loaded, h)]]

\* main.py 289-292
reject_assign(loaded, payload) ==
    LET h == record_history(loaded.review_history, get_or(payload, "role", "analyst"),
                            "REJECTED", get(payload, "comment"))
    IN  [assigned |-> [status |-> "REJECTED",
                       analyst_comment |-> get(payload, "comment"),
                       analyst_role |-> get_or(payload, "role", "analyst"),
                       review_history |-> h.list],
         snapshot |-> [status |-> loaded.status,
                       analyst_comment |-> loaded.analyst_comment,
                       analyst_role |-> loaded.analyst_role,
                       review_history |-> history_snapshot(loaded, h)]]

\* main.py 312-313
finalize_assign(loaded, payload) ==
    LET h == record_history(loaded.review_history, get_or(payload, "user", "system"),
                            "SUBMITTED", get(payload, "comment"))
    IN  [assigned |-> [status |-> "SUBMITTED",
                       review_history |-> h.list],
         snapshot |-> [status |-> loaded.status,
                       review_history |-> history_snapshot(loaded, h)]]

\* a request refused before anything is assigned: session.close(), raise
refuse_mut(response) ==
    /\ resp' = response
    /\ cases' = [c \in DOMAIN cases |-> [cases[c] EXCEPT !.analyst_comment = "refused"]]
    /\ UNCHANGED audit

refuse(response) ==
    /\ resp' = response
    /\ UNCHANGED <<cases, audit>>

submit_case(case_id, payload) ==
    /\ IF case_id \notin DOMAIN cases THEN refuse(HTTPException(404, "Case not found"))
       ELSE IF ~can_transition(cases[case_id].status, "REVIEW")
       THEN refuse(HTTPException(400, "Invalid transition"))
       ELSE LET a == submit_assign(cases[case_id], payload)
            IN  /\ cases' = [cases EXCEPT ![case_id] = orm_update(@, a.assigned, dirty_attrs(a.assigned, a.snapshot))]
                /\ audit' = log_event(audit, case_id, "SUBMITTED", payload)
                /\ resp' = Response(200, [status |-> cases'[case_id].status])
    /\ UNCHANGED <<guard_in, call, guard_out, req, posts>>

approve_case(case_id, payload) ==
    /\ IF case_id \notin DOMAIN cases THEN refuse(HTTPException(404, "Case not found"))
       ELSE IF ~can_transition(cases[case_id].status, "APPROVED")
       THEN refuse(HTTPException(400, "Invalid transition"))
       ELSE LET a == approve_assign(cases[case_id], payload)
            IN  /\ cases' = [cases EXCEPT ![case_id] = orm_update(@, a.assigned, dirty_attrs(a.assigned, a.snapshot))]
                /\ audit' = log_event(audit, case_id, "APPROVED", payload)
                /\ resp' = Response(200, [status |-> cases'[case_id].status])
    /\ UNCHANGED <<guard_in, call, guard_out, req, posts>>

\* line 297 reads case_obj.status after session.commit() expired the object
\* and session.close() detached it: DetachedInstanceError, answered with 500
reject_case(case_id, payload) ==
    /\ IF case_id \notin DOMAIN cases THEN refuse(HTTPException(404, "Case not found"))
       ELSE IF ~can_transition(cases[case_id].status, "REJECTED")
       THEN refuse(HTTPException(400, "Invalid transition"))
       ELSE LET a == reject_assign(cases[case_id], payload)
            IN  /\ cases' = [cases EXCEPT ![case_id] = orm_update(@, a.assigned, dirty_attrs(a.assigned, a.snapshot))]
                /\ audit' = log_event(audit, case_id, "REJECTED", payload)
                /\ resp' = HTTPException(500, "DetachedInstanceError")
    /\ UNCHANGED <<guard_in, call, guard_out, req, posts>>

finalize_case(case_id, payload) ==
    /\ IF case_id \notin DOMAIN cases THEN refuse(HTTPException(404, "Case not found"))
       ELSE IF ~can_transition(cases[case_id].status, "SUBMITTED")
       THEN refuse(HTTPException(400, "Invalid transition"))
       ELSE LET a == finalize_assign(cases[case_id], payload)
            IN  /\ cases' = [cases EXCEPT ![case_id] = orm_update(@, a.assigned, dirty_attrs(a.assigned, a.snapshot))]
                /\ audit' = log_event(audit, case_id, "SUBMITTED", payload)
                /\ resp' = Response(200, [status |-> cases'[case_id].status])
    /\ UNCHANGED <<guard_in, call, guard_out, req, posts>>

-----------------------------------------------------------------------------
(* main.py: the read and export handlers.  None of them commits, so the
   loaded object stays readable after session.close().                     *)

\* ORDER BY created_at DESC; rows created at the same reading come in id
\* order
RECURSIVE order_by_created_desc(_)
order_by_created_desc(ids) ==
    IF ids = {} THEN <<>>
    ELSE LET latest == SetMax({cases[c].created_at : c \in ids})
             first == SetMin({c \in ids : cases[c].created_at = latest})
         IN  <<first>> \o order_by_created_desc(ids \ {first})

\* GET /cases; the JSON array is the field `list` of the body
list_cases ==
    /\ LET ids == order_by_created_desc(DOMAIN cases)
       IN  resp' = Response(200, [list |-> [i \in 1..Len(ids) |->
                       [id |-> ids[i],
                        status |-> cases[ids[i]].status,
                        created_at |-> iso_z(cases[ids[i]].created_at),
                        risk_score |-> cases[ids[i]].risk_score,
                        risk_level |-> cases[ids[i]].risk_level]]])
    /\ UNCHANGED <<cases, audit, guard_in, call, guard_out, req, posts>>

\* GET /cases/{case_id}
get_case(case_id) ==
    /\ IF case_id \notin DOMAIN cases THEN resp' = HTTPException(404, "Case not found")
       ELSE resp' = Response(200,
                [id |-> case_id,
                 status |-> cases[case_id].status,
                 created_at |-> iso_z(cases[case_id].created_at),
                 alert |-> cases[case_id].alert_json,
                 decision_data |-> cases[case_id].decision_data,
                 evidence_data |-> cases[case_id].evidence_data,
                 rag_context |-> cases[case_id].rag_context,
                 draft_narrative |-> cases[case_id].draft_narrative,
                 final_narrative |-> cases[case_id].final_narrative,
                 validation_results |-> cases[case_id].validation_results,
                 validation_v2_results |-> cases[case_id].validation_v2_results,
                 risk_score |-> cases[case_id].risk_score,
                 risk_level |-> cases[case_id].risk_level,
                 confidence_level |-> cases[case_id].confidence_level,
                 explainability_trace |-> cases[case_id].explainability_trace,
                 sar_document |-> cases[case_id].sar_document,
                 analyst_comment |-> cases[case_id].analyst_comment,
                 review_history |-> cases[case_id].review_history,
                 version |-> cases[case_id].version])
    /\ UNCHANGED <<cases, audit, guard_in, call, guard_out, req, posts>>

\* GET /cases/{case_id}/audit
case_audit(case_id) ==
    /\ IF case_id \notin DOMAIN cases THEN resp' = HTTPException(404, "Case not found")
       ELSE resp' = Response(200, [case_id |-> case_id,
                                   timeline |-> get_audit_timeline(audit, case_id)])
    /\ UNCHANGED <<cases, audit, guard_in, call, guard_out, req, posts>>

\* case_obj.final_narrative or case_obj.draft_narrative; Null when both are
export_narrative(row) ==
    IF row.final_narrative # Null THEN row.final_narrative ELSE row.draft_narrative

\* pdf_exporter.py: the section headings the PDF renders
PDF_SECTION_ORDER ==
    << "Subject Information", "Summary of Suspicious Activity", "Account Background",
       "Description of Suspicious Transactions", "Pattern Analysis", "Risk Indicators",
       "Investigative Findings", "Conclusion", "Supporting Evidence" >>

\* str.upper() on ASCII letters
Upper == [c \in {Lower[k] : k \in DOMAIN Lower} |-> CHOOSE k \in DOMAIN Lower : Lower[k] = c]

\* generate_pdf: the document as the content it lays out, page by page:
\* risk level, citations, and under "SAR NARRATIVE" the sections of
\* PDF_SECTION_ORDER the narrative has text for
generate_pdf(narrative) ==
    LET sections == get_or(narrative, "sections", <<>>)
        shown == {i \in 1..Len(PDF_SECTION_ORDER) :
                     /\ section_text(sections, PDF_SECTION_ORDER[i]) # None
                     /\ strip(section_text(sections, PDF_SECTION_ORDER[i])) # ""}
        order == SelectSeqIdx(PDF_SECTION_ORDER, shown, 1)
    IN  [risk_level |-> translate(Upper, get_or(narrative, "risk_level", "N/A")),
         citations |-> get_or(narrative, "evidence_citations", <<>>),
         narrative_sections |->
             [i \in 1..Len(order) |->
                 [heading |-> translate(Upper, order[i]),
                  text |-> strip(section_text(sections, order[i]))]]]

\* GET /cases/{case_id}/export/pdf
export_pdf(case_id) ==
    /\ IF case_id \notin DOMAIN cases THEN resp' = HTTPException(404, "Case not found")
       ELSE resp' = Response(200, [media_type |-> "application/pdf",
                                   content |-> generate_pdf(export_narrative(cases[case_id])),
                                   filename |-> case_id])
    /\ UNCHANGED <<cases, audit, guard_in, call, guard_out, req, posts>>

\* GET /cases/{case_id}/export/json
export_json(case_id) ==
    /\ IF case_id \notin DOMAIN cases THEN resp' = HTTPException(404, "Case not found")
       ELSE resp' = Response(200,
                [case |-> case_id,
                 narrative |-> export_narrative(cases[case_id]),
                 risk |-> [score |-> cases[case_id].risk_score,
                           level |-> cases[case_id].risk_level,
                           confidence |-> cases[case_id].confidence_level],
                 explainability_trace |-> cases[case_id].explainability_trace])
    /\ UNCHANGED <<cases, audit, guard_in, call, guard_out, req, posts>>

\* GET /cases/{case_id}/export/audit
export_audit_bundle(case_id) ==
    /\ IF case_id \notin DOMAIN cases THEN resp' = HTTPException(404, "Case not found")
       ELSE resp' = Response(200, [case_id |-> case_id,
                                   timeline |-> get_audit_timeline(audit, case_id),
                                   narrative |-> export_narrative(cases[case_id])])
    /\ UNCHANGED <<cases, audit, guard_in, call, guard_out, req, posts>>

-----------------------------------------------------------------------------
(* The service handling one request at a time *)

Idle == [pc |-> "idle"]

NoGuardCall == [evidence_citations |-> <<>>, evidence_blocks |-> <<>>]

NoCall == [fn |-> "none"]

Init ==
    /\ cases = <<>>
    /\ audit = <<>>
    /\ resp = NoResponse
    /\ guard_in = NoGuardCall
    /\ guard_out = "none"
    /\ req = [t \in Threads |-> Idle]
    /\ posts = <<>>
    /\ call = NoCall

Next ==
    \/ \E in \in PipelineInputs : ingest_alert(in)
    \/ \E n \in 0..Min(MaxBatch, MaxCases - Cardinality(DOMAIN cases)) :
       \E inputs \in [1..n -> PipelineInputs] : batch_ingest(inputs)
    \/ \E c \in CaseIds, p \in SubmitPayloads : submit_case(c, p)
    \/ \E c \in CaseIds, p \in ReviewPayloads : approve_case(c, p)
    \/ \E c \in CaseIds, p \in ReviewPayloads : reject_case(c, p)
    \/ \E c \in CaseIds, p \in FinalizePayloads : finalize_case(c, p)

Spec == Init /\ [][Next]_vars

\* the write handlers together with the read and export handlers
Reads ==
    \/ list_cases
    \/ \E c \in CaseIds : get_case(c)
    \/ \E c \in CaseIds : case_audit(c)
    \/ \E c \in CaseIds : export_pdf(c)
    \/ \E c \in CaseIds : export_json(c)
    \/ \E c \in CaseIds : export_audit_bundle(c)

NextAll == Next \/ Reads

SpecAll == Init /\ [][NextAll]_vars

\* the service receiving the alerts of the structuring scenario
NextScenario ==
    \/ \E in \in ScenarioInputs : ingest_alert(in)
    \/ \E c \in CaseIds, p \in SubmitPayloads : submit_case(c, p)
    \/ \E c \in CaseIds, p \in ReviewPayloads : approve_case(c, p)
    \/ \E c \in CaseIds, p \in ReviewPayloads : reject_case(c, p)
    \/ \E c \in CaseIds, p \in FinalizePayloads : finalize_case(c, p)

SpecScenario == Init /\ [][NextScenario]_vars

-----------------------------------------------------------------------------
(* Properties of the lifecycle handlers *)

\* the transition table as the lifecycle description states it
StatedTable ==
    { <<"DRAFT", "REVIEW">>, <<"DRAFT", "VALIDATION_FAILED">>,
      <<"REVIEW", "APPROVED">>, <<"REVIEW", "REJECTED">>,
      <<"APPROVED", "SUBMITTED">>,
      <<"REJECTED", "DRAFT">>, <<"VALIDATION_FAILED", "DRAFT">> }

InvalidTransition == HTTPException(400, "Invalid transition")

\* the step is a lifecycle request on case c asking for status `target`
LifecycleStep(c, target) ==
    CASE target = "REVIEW"    -> \E p \in SubmitPayloads : submit_case(c, p)
      [] target = "APPROVED"  -> \E p \in ReviewPayloads : approve_case(c, p)
      [] target = "REJECTED"  -> \E p \in ReviewPayloads : reject_case(c, p)
      [] target = "SUBMITTED" -> \E p \in FinalizePayloads : finalize_case(c, p)

LifecycleTargets == {"REVIEW", "APPROVED", "REJECTED", "SUBMITTED"}

\* the step carried the transition of case c to `target` out: the new
\* status is stored and the lifecycle event is logged
Performed(c, target) ==
    /\ cases'[c].status = target
    /\ Len(audit') = Len(audit) + 1
    /\ audit'[Len(audit')].case_id = c

\* C1: a lifecycle request on an existing case is carried out if and only if
\* (current status, requested status) is in the stated table, and is
\* answered 400 "Invalid transition" if and only if it is not; so
\* REVIEW->SUBMITTED and REJECTED->REVIEW are refused and nothing leaves
\* SUBMITTED.
C1_AcceptedIffInTable ==
    [][\A c \in DOMAIN cases, target \in LifecycleTargets :
          LifecycleStep(c, target) =>
              /\ (<<cases[c].status, target>> \in StatedTable) <=> Performed(c, target)
              /\ (<<cases[c].status, target>> \notin StatedTable) <=> (resp' = InvalidTransition)
      ]_vars

\* C1 witness: a case went DRAFT -> REVIEW -> APPROVED -> SUBMITTED and a
\* further request on it was refused
C1_Witness ==
    \E c \in DOMAIN cases :
        /\ cases[c].status = "SUBMITTED"
        /\ resp = InvalidTransition

\* C2: a lifecycle request whose transition is not in the table is refused
\* and changes nothing: every column of every case (status, version,
\* review_history, final_narrative, analyst_comment among them) keeps its
\* value and the audit log gets no event.
C2_RefusalMutatesNothing ==
    [][\A c \in DOMAIN cases, target \in LifecycleTargets :
          (LifecycleStep(c, target) /\ <<cases[c].status, target>> \notin StatedTable) =>
              /\ resp' = InvalidTransition
              /\ cases' = cases
              /\ audit' = audit
      ]_vars

\* C2 witness: a rejected case, with its rejection recorded, on which a
\* later request was refused
C2_Witness ==
    \E c \in DOMAIN cases :
        /\ cases[c].status = "REJECTED"
        /\ cases[c].analyst_comment = "narrative edited"
        /\ audit[Len(audit)].event_type = "REJECTED"
        /\ resp = InvalidTransition

-----------------------------------------------------------------------------
(* Properties of the pipeline and of the stored cases *)

\* the audit events of case c, oldest first
CaseEvents(log, c) == SelectSeqIdx(log, {i \in 1..Len(log) : log[i].case_id = c}, 1)

\* the cases a step created
Created == DOMAIN cases' \ DOMAIN cases

\* C3: the status of every stored case is one of the six defined states.
C3_StatusDefined ==
    \A c \in DOMAIN cases :
        cases[c].status \in {"DRAFT", "REVIEW", "APPROVED", "SUBMITTED", "REJECTED",
                             "VALIDATION_FAILED"}

\* C4: the pipeline run of an ingest leaves the new case in DRAFT when the
\* validation it logged passed and in VALIDATION_FAILED when it failed, and
\* in no other status.
C4_RunLandsInDraftOrFailed ==
    [][\A c \in Created :
          /\ cases'[c].status \in {"DRAFT", "VALIDATION_FAILED"}
          /\ \A i \in 1..Len(audit') :
                (audit'[i].case_id = c /\ audit'[i].event_type = "VALIDATED") =>
                    (cases'[c].status = "DRAFT") = audit'[i].payload.validation.passed
      ]_vars

\* the run of case c got as far as the VALIDATED event and then raised: the
\* only statement between that event and the commit is the guard
GuardRejected(log, c) ==
    LET ev == CaseEvents(log, c)
    IN  /\ Len(ev) >= 2
        /\ ev[Len(ev)].event_type = "ERROR"
        /\ ev[Len(ev) - 1].event_type = "VALIDATED"

\* the caller of the step was told that the run of case c failed: HTTP 500
\* from /ingest-alert, status "ERROR" in the item of /batch-ingest
CallerToldError(response, c) ==
    \/ response.code = 500
    \/ /\ response.code = 200
       /\ "results" \in DOMAIN response.body
       /\ \E i \in 1..Len(response.body.results) :
              /\ response.body.results[i].case_id = c
              /\ response.body.results[i].status = "ERROR"

\* C6: when the guard rejects the run of a new case, the caller receives an
\* error and the case keeps what the INSERT before the run stored: status,
\* draft_narrative, risk_score, risk_level, explainability_trace and the
\* validation results are those of the inserted row.
C6_GuardRejectionFatal ==
    [][\A c \in Created :
          GuardRejected(audit', c) =>
              /\ CallerToldError(resp', c)
              /\ cases'[c].status = "INGESTED"
              /\ cases'[c].draft_narrative = Null
              /\ cases'[c].risk_score = 0
              /\ cases'[c].risk_level = "LOW"
              /\ cases'[c].explainability_trace = Null
              /\ cases'[c].validation_results = Null
              /\ cases'[c].validation_v2_results = Null
      ]_vars

\* C6 witness: /ingest-alert answered 500 for a run the guard rejected
C6_Witness ==
    /\ resp.code = 500
    /\ \E c \in DOMAIN cases : GuardRejected(audit, c) /\ cases[c].draft_narrative = Null

\* the rule ids of the evidence blocks the Rule Engine produced in the run
\* of case c, as its RULE_TRIGGERED event recorded them
TriggeredIds(log, c) ==
    UNION { {log[i].payload.evidence_blocks[j].rule_id :
                j \in 1..Len(log[i].payload.evidence_blocks)}
            : i \in {k \in 1..Len(log) : log[k].case_id = c /\ log[k].event_type = "RULE_TRIGGERED"} }

\* C7: a stored draft narrative cites at least one rule id, and every id it
\* cites is the rule_id of an evidence block of the same run.
C7_DraftCitationsSupported ==
    \A c \in DOMAIN cases :
        cases[c].draft_narrative # Null =>
            LET cited == cases[c].draft_narrative.evidence_citations
            IN  /\ Len(cited) > 0
                /\ \A i \in 1..Len(cited) : cited[i] \in TriggeredIds(audit, c)

\* C7 witness: a stored draft that cites two rules
C7_Witness ==
    \E c \in DOMAIN cases :
        /\ cases[c].draft_narrative # Null
        /\ Len(cases[c].draft_narrative.evidence_citations) = 2

\* C8: a step that changes the status of a case through a lifecycle request
\* adds exactly one entry, with the keys user, action and comment, at the
\* end of its review_history and keeps the earlier entries.
C8_HistoryAppended ==
    [][\A c \in DOMAIN cases, target \in LifecycleTargets :
          (LifecycleStep(c, target) /\ Performed(c, target)) =>
              LET old == cases[c].review_history
                  new == cases'[c].review_history
              IN  /\ Len(new) = Len(old) + 1
                  /\ SubSeq(new, 1, Len(old)) = old
                  /\ DOMAIN new[Len(new)] = {"user", "action", "comment"}
      ]_vars

\* C9: a step that carries out a submit, approve, reject or finalize raises
\* the version of the case by one, and no step lowers a version.
C9_VersionIncremented ==
    [][/\ \A c \in DOMAIN cases, target \in LifecycleTargets :
             (LifecycleStep(c, target) /\ Performed(c, target)) =>
                 cases'[c].version = cases[c].version + 1
       /\ \A c \in DOMAIN cases : cases'[c].version >= cases[c].version
      ]_vars

-----------------------------------------------------------------------------
(* The hallucination guard on its own *)

\* ids a narrative may cite: the rule ids and one id no rule carries
CitedIds == RuleIds \cup {"AML-999"}

\* the evidence blocks a run can trigger: rule A, B, C blocks in that order,
\* each present or absent (rules.py appends them in this order)
GuardBlock(rule_id) == EvidenceBlock(rule_id, "rule", 80, <<>>)

GuardBlockLists ==
    { SelectSeqIdx(<<GuardBlock("AML-001"), GuardBlock("AML-017"), GuardBlock("AML-021")>>, keep, 1)
        : keep \in SUBSET (1..3) }

GuardInputs == [evidence_citations : SeqUpTo(CitedIds, MaxCites),
                evidence_blocks : GuardBlockLists]

InitGuard ==
    /\ cases = <<>>
    /\ audit = <<>>
    /\ resp = NoResponse
    /\ guard_in \in GuardInputs
    /\ guard_out = "none"
    /\ req = [t \in Threads |-> Idle]
    /\ posts = <<>>
    /\ call = NoCall

guard_call ==
    /\ guard_out = "none"
    /\ guard_out' = IF hallucination_guard(guard_in.evidence_citations, guard_in.evidence_blocks)
                    THEN "raise" ELSE "pass"
    /\ UNCHANGED <<cases, audit, resp, guard_in, call, req, posts>>

NextGuard == guard_call

SpecGuard == InitGuard /\ [][NextGuard]_vars

\* C5: the guard rejects exactly when no id is cited or some cited id is not
\* the rule id of any evidence block of the run; so it accepts every
\* non-empty citation list all of whose ids belong to triggered blocks.
C5_GuardRejectsIff ==
    guard_out # "none" =>
        LET cited == guard_in.evidence_citations
            blocks == guard_in.evidence_blocks
            unsupported == \E i \in 1..Len(cited) :
                               \A j \in 1..Len(blocks) : blocks[j].rule_id # cited[i]
        IN  (guard_out = "raise") <=> (Len(cited) = 0 \/ unsupported)

\* C5 witness: a call with citations and blocks, one citation unsupported,
\* was rejected
C5_Witness ==
    /\ guard_out = "raise"
    /\ Len(guard_in.evidence_citations) = 2
    /\ Len(guard_in.evidence_blocks) = 2
    /\ guard_in.evidence_citations[1] = "AML-001"
    /\ guard_in.evidence_citations[2] = "AML-021"
    /\ guard_in.evidence_blocks[2].rule_id = "AML-017"

-----------------------------------------------------------------------------
(* The service handling requests in parallel.  FastAPI runs the handlers,
   plain def functions, on a thread pool; each opens its own session.  A
   handler is cut at its database round trips: the SELECT of
   session.query(...).first(), the UPDATE of session.commit(), the clock
   reading and the INSERT of log_event, and the SELECT that reloads the
   expired object when case_obj.status is read for the response.  Nothing
   in the handlers or in db.py locks a row or compares a version between
   these round trips.                                                     *)

LifecycleOps == {"submit", "approve", "reject", "finalize"}

\* the status a handler asks for, lines 236, 258, 284, 308
target_of(op) ==
    CASE op = "submit" -> "REVIEW"
      [] op = "approve" -> "APPROVED"
      [] op = "reject" -> "REJECTED"
      [] op = "finalize" -> "SUBMITTED"

\* the event type a handler logs, lines 244, 270, 295, 315
event_of(op) ==
    CASE op = "submit" -> "SUBMITTED"
      [] op = "approve" -> "APPROVED"
      [] op = "reject" -> "REJECTED"
      [] op = "finalize" -> "SUBMITTED"

payloads_of(op) ==
    CASE op = "submit" -> SubmitPayloads
      [] op = "approve" -> ReviewPayloads
      [] op = "reject" -> ReviewPayloads
      [] op = "finalize" -> FinalizePayloads

assign_of(op, loaded, payload) ==
    CASE op = "submit" -> submit_assign(loaded, payload)
      [] op = "approve" -> approve_assign(loaded, payload)
      [] op = "reject" -> reject_assign(loaded, payload)
      [] op = "finalize" -> finalize_assign(loaded, payload)

\* the runs of the pipeline the parallel service is explored with
ConcInputs == {in \in PipelineInputs : in.llm.kind = "fallback" /\ in.rag.kind = "ok"}

\* /ingest-alert up to the first commit: the row is inserted as INGESTED
conc_insert(t, in) ==
    /\ req[t].pc = "idle"
    /\ Cardinality(DOMAIN cases) < MaxCases
    /\ LET case_id == Cardinality(DOMAIN cases) + 1
       IN  /\ cases' = [c \in DOMAIN cases \cup {case_id} |->
                           IF c = case_id THEN NewCase(in.alert, utcnow(audit)) ELSE cases[c]]
           /\ req' = [req EXCEPT ![t] = [pc |-> "pipeline", case_id |-> case_id, in |-> in]]
           /\ posts' = [c \in DOMAIN cases \cup {case_id} |->
                           IF c = case_id THEN 0 ELSE posts[c]]
    /\ UNCHANGED <<audit, resp, guard_in, call, guard_out>>

\* the rest of /ingest-alert: the INGESTED event, the pipeline with its
\* events and its commit, the response
conc_pipeline(t) ==
    /\ req[t].pc = "pipeline"
    /\ LET respond(c, run) ==
               /\ cases' = [cases EXCEPT ![c] = run.row]
               /\ audit' = IF run.raised
                           THEN log_event(run.log, c, "ERROR", [error |-> run.detail])
                           ELSE run.log
               /\ resp' = IF run.raised
                          THEN HTTPException(500, run.detail)
                          ELSE Response(200, [case_id |-> c, status |-> run.row.status])
       IN  respond(req[t].case_id,
                   run_pipeline(log_event(audit, req[t].case_id, "INGESTED",
                                          [alert |-> req[t].in.alert]),
                                req[t].case_id, cases[req[t].case_id], req[t].in))
    /\ posts' = [posts EXCEPT ![req[t].case_id] = run_posts(req[t].in)]
    /\ req' = [req EXCEPT ![t] = Idle]
    /\ UNCHANGED <<guard_in, call, guard_out>>

\* the lifecycle requests that passed their checks so far: those logged and
\* those between their checks and their log_event
LifecycleStarted ==
    Cardinality({i \in 1..Len(audit) : audit[i].event_type \in {"SUBMITTED", "APPROVED", "REJECTED"}})
    + Cardinality({t \in Threads : req[t].pc \in {"commit", "stamp", "log"}})

\* a lifecycle handler up to its checks: the case is loaded and the
\* transition tested against the loaded status.  Exploration stops
\* accepting requests after MaxLifecycle of them.
conc_query(t, op, case_id, payload) ==
    /\ req[t].pc = "idle"
    /\ IF case_id \notin DOMAIN cases
       THEN resp' = HTTPException(404, "Case not found") /\ UNCHANGED req
       ELSE IF ~can_transition(cases[case_id].status, target_of(op))
       THEN resp' = HTTPException(400, "Invalid transition") /\ UNCHANGED req
       ELSE /\ LifecycleStarted < MaxLifecycle
            /\ req' = [req EXCEPT ![t] = [pc |-> "commit", op |-> op, case_id |-> case_id,
                                          payload |-> payload, loaded |-> cases[case_id]]]
            /\ UNCHANGED resp
    /\ UNCHANGED <<cases, audit, guard_in, call, guard_out, posts>>

\* the assignments and session.commit(): UPDATE cases SET <dirty> WHERE id
conc_commit(t) ==
    /\ req[t].pc = "commit"
    /\ LET a == assign_of(req[t].op, req[t].loaded, req[t].payload)
       IN  cases' = [cases EXCEPT ![req[t].case_id] =
                        orm_update(@, a.assigned, dirty_attrs(a.assigned, a.snapshot))]
    /\ req' = [req EXCEPT ![t].pc = "stamp"]
    /\ UNCHANGED <<audit, resp, guard_in, call, guard_out, posts>>

\* log_event up to audit.py line 14: the payload is masked and the event
\* object built with the reading of the clock
conc_stamp(t) ==
    /\ req[t].pc = "stamp"
    /\ req' = [req EXCEPT ![t] = [req[t] EXCEPT !.pc = "log"] @@ [timestamp |-> utcnow(audit)]]
    /\ UNCHANGED <<cases, audit, resp, guard_in, call, guard_out, posts>>

\* log_event, audit.py lines 15-16: the INSERT of the event
conc_log(t) ==
    /\ req[t].pc = "log"
    /\ audit' = insert_event(audit, req[t].case_id, event_of(req[t].op), req[t].timestamp,
                             req[t].payload)
    /\ req' = [req EXCEPT ![t].pc = "return"]
    /\ UNCHANGED <<cases, resp, guard_in, call, guard_out, posts>>

\* status = case_obj.status reloads the row; reject_case reads it after
\* session.close()
conc_return(t) ==
    /\ req[t].pc = "return"
    /\ resp' = IF req[t].op = "reject"
               THEN HTTPException(500, "DetachedInstanceError")
               ELSE Response(200, [status |-> cases[req[t].case_id].status])
    /\ req' = [req EXCEPT ![t] = Idle]
    /\ UNCHANGED <<cases, audit, guard_in, call, guard_out, posts>>

NextConc ==
    \/ \E t \in Threads, in \in ConcInputs : conc_insert(t, in)
    \/ \E t \in Threads : conc_pipeline(t)
    \/ \E t \in Threads, op \in LifecycleOps, c \in CaseIds :
          \E p \in payloads_of(op) : conc_query(t, op, c, p)
    \/ \E t \in Threads : conc_commit(t)
    \/ \E t \in Threads : conc_stamp(t)
    \/ \E t \in Threads : conc_log(t)
    \/ \E t \in Threads : conc_return(t)

SpecConc == Init /\ [][NextConc]_vars

\* the sequences of requested statuses that requests handled one after the
\* other can carry out, starting from `status`, at most n of them
RECURSIVE SequentialRuns(_, _)
SequentialRuns(status, n) ==
    {<<>>} \cup
    (IF n = 0 THEN {}
     ELSE UNION { {<<target>> \o r : r \in SequentialRuns(target, n - 1)}
                  : target \in {x \in LifecycleTargets : <<status, x>> \in StatedTable} })

\* the number of events of type e logged for case c
EventCount(c, e) ==
    Cardinality({i \in 1..Len(audit) : audit[i].case_id = c /\ audit[i].event_type = e})

\* the stored case c and its lifecycle events are what the requests of the
\* run r, handled one after the other on the drafted case, leave behind
LeftBySequentialRun(c, r) ==
    LET n(target) == Cardinality({i \in 1..Len(r) : r[i] = target})
    IN  /\ cases[c].status = IF r = <<>> THEN "DRAFT" ELSE r[Len(r)]
        /\ cases[c].version = 1 + n("REVIEW")
        /\ EventCount(c, "SUBMITTED") = n("REVIEW") + n("SUBMITTED")
        /\ EventCount(c, "APPROVED") = n("APPROVED")
        /\ EventCount(c, "REJECTED") = n("REJECTED")

\* C10: requests on one case are serialised.  Whenever no request is in
\* flight, every drafted case is in a state that some one-after-the-other
\* execution of the performed requests leaves behind: its status, its
\* version and its logged lifecycle events are those of a path through the
\* transition table, so of two conflicting requests (approve and reject on
\* a REVIEW case, two submits on a DRAFT case) only one was carried out.
C10_Serialised ==
    (\A t \in Threads : req[t].pc = "idle") =>
        \A c \in DOMAIN cases :
            cases[c].draft_narrative # Null =>
                \E r \in SequentialRuns("DRAFT", 4) : LeftBySequentialRun(c, r)

-----------------------------------------------------------------------------
(* Properties of the collaborators' failures *)

\* the step is the ingest of one alert, through /ingest-alert or as the only
\* alert of a /batch-ingest, with the collaborators behaving as `in` says
IngestStep(in) ==
    /\ \E c \in Created : cases'[c].alert_json = in.alert
    /\ ingest_alert(in) \/ batch_ingest(<<in>>)

\* the positions in the event list ev that hold an event of type e
EventsOfType(ev, e) == {i \in 1..Len(ev) : ev[i].event_type = e}

\* the keys of the sections the fallback generator returns, llm.py 38-46
FallbackSections ==
    {"subject_information", "account_details", "alert_summary",
     "transaction_pattern_analysis", "suspicious_behaviour_indicators",
     "supporting_evidence", "regulatory_justification", "investigator_assessment",
     "conclusion_recommendation"}

\* the validation errors about a fixed section (missing or blank)
SectionErrors(validation) ==
    {i \in 1..Len(validation.errors) :
        validation.errors[i][1] \in {"Missing section", "Empty section"}}

\* C11: when the provider call of a run fails (timeout, transport error,
\* unparsable answer), the run goes on: exactly one DRAFT_GENERATED event
\* is logged, carrying the fallback sections (a mapping of section keys to
\* text, like a generated narrative), the formatter does not raise, the
\* validation that is logged reports no missing or blank section, and the
\* run ends as the guard decides: a draft with nine non-blank sections when
\* a rule triggered.
C11_FallbackKeepsRunning ==
    [][\A in \in PipelineInputs :
          (in.llm.kind \in {"fallback", "raise"} /\ in.rag.kind = "ok" /\ IngestStep(in)) =>
              \A c \in Created :
                  LET ev == CaseEvents(audit', c)
                      drafts == EventsOfType(ev, "DRAFT_GENERATED")
                      checks == EventsOfType(ev, "VALIDATED")
                  IN  /\ Cardinality(drafts) = 1
                      /\ \A i \in drafts :
                            /\ DOMAIN ev[i].payload.narrative = FallbackSections \cup {"confidence_level"}
                            /\ \A k \in FallbackSections :
                                  ev[i].payload.narrative[k] \notin {None, NonStr}
                      /\ Cardinality(checks) = 1
                      /\ \A i \in checks : SectionErrors(ev[i].payload.validation) = {}
                      /\ CallerToldError(resp', c) => GuardRejected(audit', c)
                      /\ TriggeredIds(audit', c) # {} =>
                            /\ cases'[c].status = "DRAFT"
                            /\ Len(cases'[c].draft_narrative.sections) = Len(SECTION_ORDER)
                            /\ \A k \in 1..Len(SECTION_ORDER) :
                                  strip(cases'[c].draft_narrative.sections[k].text) # ""
      ]_vars

\* C11 witness: a stored draft whose narrative came from the fallback after
\* the provider call failed
C11_Witness ==
    \E c \in DOMAIN cases :
        /\ cases[c].status = "DRAFT"
        /\ \E i \in 1..Len(audit) :
              /\ audit[i].case_id = c
              /\ audit[i].event_type = "DRAFT_GENERATED"
              /\ audit[i].payload.llm_meta.model = OLLAMA_MODEL \o "_fallback"

\* C12: when the provider call of a run fails and the fallback narrative is
\* used, the events of the case hold an ERROR event before the
\* DRAFT_GENERATED event.
C12_ErrorBeforeDraft ==
    [][\A in \in PipelineInputs :
          (in.llm.kind \in {"fallback", "raise"} /\ in.rag.kind = "ok" /\ IngestStep(in)) =>
              \A c \in Created :
                  LET ev == CaseEvents(audit', c)
                  IN  \A i \in EventsOfType(ev, "DRAFT_GENERATED") :
                          \E j \in EventsOfType(ev, "ERROR") : j < i
      ]_vars

\* C13: a run calls the provider at most once.  After a provider call that
\* timed out or failed there is no second call: the run has made exactly
\* one, goes on to log DRAFT_GENERATED with the fallback, and the request is
\* answered (200 or 500).
C13_SingleProviderCall ==
    [][\A in \in PipelineInputs :
          IngestStep(in) =>
              \A c \in Created :
                  /\ posts'[c] <= 1
                  /\ (in.rag.kind = "ok" /\ in.llm.kind \in {"fallback", "raise"}) =>
                        /\ posts'[c] = 1
                        /\ EventsOfType(CaseEvents(audit', c), "DRAFT_GENERATED") # {}
                  /\ resp'.code \in {200, 500}
      ]_vars

\* C13 witness: a run whose provider call raised into run_pipeline, which
\* logged the failure and called generate_narrative a second time; one
\* provider call was made
C13_Witness ==
    \E c \in DOMAIN cases :
        /\ posts[c] = 1
        /\ \E i \in 1..Len(audit) :
              /\ audit[i].case_id = c
              /\ audit[i].event_type = "ERROR"
              /\ audit[i].payload.error = "LLM failure"
        /\ \E i \in 1..Len(audit) :
              /\ audit[i].case_id = c
              /\ audit[i].event_type = "DRAFT_GENERATED"

\* C14: when the retrieval call of a run raises, the failure is logged as an
\* ERROR event and the run goes on: a narrative is drafted
\* (DRAFT_GENERATED and VALIDATED are logged), the caller is not told of a
\* failure unless the guard rejected the run, and a run whose alert
\* triggered a rule stores its draft.
C14_RetrievalFailureRecovered ==
    [][\A in \in PipelineInputs :
          (in.rag.kind = "raise" /\ IngestStep(in)) =>
              \A c \in Created :
                  LET ev == CaseEvents(audit', c)
                  IN  /\ EventsOfType(ev, "ERROR") # {}
                      /\ EventsOfType(ev, "DRAFT_GENERATED") # {}
                      /\ EventsOfType(ev, "VALIDATED") # {}
                      /\ CallerToldError(resp', c) => GuardRejected(audit', c)
                      /\ TriggeredIds(audit', c) # {} => cases'[c].draft_narrative # Null
      ]_vars

-----------------------------------------------------------------------------
(* Properties of the audit log *)

\* C16: whatever the interleaving of the requests, the timeline
\* get_audit_timeline returns for a case lists its events in the order in
\* which they were appended to the audit log, and the timestamps of the
\* case's events do not decrease in that order.
C16_TimelineInAppendOrder ==
    \A c \in DOMAIN cases :
        LET ev == CaseEvents(audit, c)
            timeline == get_audit_timeline(audit, c)
        IN  /\ Len(timeline) = Len(ev)
            /\ \A i \in 1..Len(ev) :
                  /\ timeline[i].event_type = ev[i].event_type
                  /\ timeline[i].timestamp = iso_z(ev[i].timestamp)
            /\ \A i, j \in 1..Len(ev) : i < j => ev[i].timestamp <= ev[j].timestamp

\* C15: the audit log is append-only.  Every step of every handler (ingest,
\* batch ingest, submit, approve, reject, finalize, the reads and the
\* exports) leaves each stored event as it is and at its place; the log
\* changes only by events added at its end.
C15_AppendOnly ==
    [][/\ Len(audit') >= Len(audit)
       /\ \A i \in 1..Len(audit) : audit'[i] = audit[i]
      ]_vars

\* C15 witness: the audit bundle of a case was exported after its pipeline
\* run and lifecycle requests; the log holds the nine or more events they
\* appended, a lifecycle event last
C15_Witness ==
    /\ resp.code = 200
    /\ {"timeline", "narrative"} \subseteq DOMAIN resp.body
    /\ Len(resp.body.timeline) >= 11
    /\ Len(audit) >= 11
    /\ audit[1].event_type = "INGESTED"
    /\ audit[Len(audit)].event_type = "APPROVED"

\* the step is the lifecycle request op on case c with the body p
HandlerStep(op, c, p) ==
    CASE op = "submit" -> submit_case(c, p)
      [] op = "approve" -> approve_case(c, p)
      [] op = "reject" -> reject_case(c, p)
      [] op = "finalize" -> finalize_case(c, p)

\* the sensitive keys of the dict d
Sensitive(d) == PII_FIELDS \cap DOMAIN d

\* stored is the dict logged with every sensitive value replaced by its
\* masked form and every other value kept
MaskedCopy(stored, logged) ==
    /\ DOMAIN stored = DOMAIN logged
    /\ \A k \in DOMAIN logged :
          stored[k] = IF k \in PII_FIELDS THEN mask_value(logged[k]) ELSE logged[k]

\* C17: every audit event is stored with the sensitive values of its
\* payload masked, at the depth where they stand.  For the ingest of an
\* alert: the customer dict inside the alert (INGESTED), inside the
\* decision dataset (ENRICHED) and inside the evidence pack (EVIDENCE_BUILT,
\* logged already masked) are masked copies of what was logged, and the
\* ERROR event keeps its text.  For a lifecycle request: the stored payload
\* is the masked copy of the request body.
C17_PayloadsMasked ==
    [][/\ \A in \in PipelineInputs :
             IngestStep(in) =>
                 \A c \in Created :
                     LET ev == CaseEvents(audit', c)
                     IN  /\ \A i \in EventsOfType(ev, "INGESTED") :
                               /\ MaskedCopy(ev[i].payload.alert.customer, in.alert.customer)
                               /\ ev[i].payload.alert.transactions = in.alert.transactions
                         /\ \A i \in EventsOfType(ev, "ENRICHED") :
                               MaskedCopy(ev[i].payload.decision_data.customer, in.alert.customer)
                         /\ \A i \in EventsOfType(ev, "EVIDENCE_BUILT") :
                               MaskedCopy(ev[i].payload.narrative_dataset.customer_profile,
                                          mask_pii(in.alert.customer))
                         /\ \A i \in EventsOfType(ev, "ERROR") :
                               DOMAIN ev[i].payload = {"error"}
       /\ \A c \in DOMAIN cases, op \in LifecycleOps :
             \A p \in payloads_of(op) :
                 (HandlerStep(op, c, p) /\ Performed(c, target_of(op))) =>
                     /\ MaskedCopy(audit'[Len(audit')].payload, p)
                     /\ \A k \in Sensitive(p) : audit'[Len(audit')].payload[k] # p[k]
      ]_vars

\* C17 witness: the log holds the INGESTED event of an alert with the
\* customer's name and account number masked, and a SUBMITTED event with
\* the e-mail address of the request body masked
C17_Witness ==
    /\ \E i \in 1..Len(audit) :
          /\ audit[i].event_type = "INGESTED"
          /\ audit[i].payload.alert.customer.name = "****"
          /\ audit[i].payload.alert.customer.account_number = "99****33"
    /\ \E i \in 1..Len(audit) :
          /\ audit[i].event_type = "SUBMITTED"
          /\ "email" \in DOMAIN audit[i].payload
          /\ audit[i].payload.email = "as****le"

\* C18: the number of lifecycle events (SUBMITTED, APPROVED, REJECTED)
\* logged for a case equals the length of its review_history.
C18_LifecycleEventsMatchHistory ==
    \A c \in DOMAIN cases :
        EventCount(c, "SUBMITTED") + EventCount(c, "APPROVED") + EventCount(c, "REJECTED")
            = Len(cases[c].review_history)

-----------------------------------------------------------------------------
(* Properties of the failures of a run *)

\* an exception no statement of run_pipeline catches leaves the run of the
\* input `in`: the retrieval call raises, or the formatter raises on a
\* generated section that is not text
Unexpected(in) ==
    \/ in.rag.kind = "raise"
    \/ /\ in.rag.kind = "ok"
       /\ in.llm.kind = "generated"
       /\ format_raises(in.llm.narrative)

\* C19: when an unexpected exception leaves the pipeline run of a new case,
\* the handler catches it: the events of the case end with one ERROR event
\* carrying the text of the exception, and it is the only ERROR event of
\* the case; the run logged no later stage (no VALIDATED event); the caller
\* is told of the failure; and the case holds what the INSERT before the
\* run committed.
C19_UnexpectedExceptionHandled ==
    [][\A in \in PipelineInputs :
          (IngestStep(in) /\ Unexpected(in)) =>
              \A c \in Created :
                  LET ev == CaseEvents(audit', c)
                  IN  /\ ev[Len(ev)].event_type = "ERROR"
                      /\ ev[Len(ev)].payload.error \in {"retrieval failure", "AttributeError"}
                      /\ Cardinality(EventsOfType(ev, "ERROR")) = 1
                      /\ EventsOfType(ev, "VALIDATED") = {}
                      /\ CallerToldError(resp', c)
                      /\ cases'[c] = NewCase(in.alert, cases'[c].created_at)
      ]_vars

\* C19 witness: /ingest-alert answered 500 after the formatter raised; the
\* case is as inserted and its last event is the ERROR event
C19_Witness ==
    /\ resp.code = 500
    /\ \E c \in DOMAIN cases :
          /\ cases[c].status = "INGESTED"
          /\ audit[Len(audit)].case_id = c
          /\ audit[Len(audit)].event_type = "ERROR"
          /\ audit[Len(audit)].payload.error = "AttributeError"
          /\ audit[Len(audit) - 1].event_type = "DRAFT_GENERATED"

\* C20: when the validation of a run reports errors (passed is false), the
\* run completes: the caller is not told of a failure, the case stores the
\* validation results and its status is VALIDATION_FAILED.
C20_ValidationFailureNotFatal ==
    [][\A c \in Created :
          LET ev == CaseEvents(audit', c)
          IN  \A i \in EventsOfType(ev, "VALIDATED") :
                  ~ev[i].payload.validation.passed =>
                      /\ ~CallerToldError(resp', c)
                      /\ cases'[c].status = "VALIDATION_FAILED"
                      /\ cases'[c].validation_results = ev[i].payload.validation
                      /\ cases'[c].validation_v2_results = ev[i].payload.validation
      ]_vars

-----------------------------------------------------------------------------
(* Properties of the end-to-end scenarios *)

\* the retrieval call returns and the generator's output can be formatted
CollaboratorsWork(in) ==
    /\ in.rag.kind = "ok"
    /\ ~(in.llm.kind = "generated" /\ format_raises(in.llm.narrative))

\* C21: an alert with 25 transactions of 5,000 each within five days, no PEP
\* flag and no high-risk country, ingested while the collaborators work,
\* triggers AML-001 and no other rule, gets a risk level of at least MEDIUM,
\* the status DRAFT and the single evidence citation "AML-001".
C21_StructuringScenario ==
    [][\A in \in ScenarioInputs :
          (IngestStep(in) /\ CollaboratorsWork(in)) =>
             \A c \in Created :
                /\ \A i \in EventsOfType(CaseEvents(audit', c), "RULE_TRIGGERED") :
                      LET blocks == CaseEvents(audit', c)[i].payload.evidence_blocks
                      IN  [k \in 1..Len(blocks) |-> blocks[k].rule_id] = <<"AML-001">>
                /\ cases'[c].risk_level \in {"MEDIUM", "HIGH", "CRITICAL"}
                /\ cases'[c].status = "DRAFT"
                /\ cases'[c].draft_narrative.evidence_citations = <<"AML-001">>
      ]_vars

\* C22: an alert with zero transactions is enriched to period_days = 0 and
\* total_amount = 0 and triggers no rule; when the run reaches the
\* validation (the collaborators work), the citation list is empty, the
\* hallucination guard rejects the run, the caller is told the error and
\* no draft is stored.
C22_EmptyAlertRejected ==
    [][\A in \in PipelineInputs :
          (IngestStep(in) /\ in.alert.transactions = <<>>) =>
             \A c \in Created :
                LET ev == CaseEvents(audit', c)
                IN  /\ Cardinality(EventsOfType(ev, "ENRICHED")) = 1
                    /\ \A i \in EventsOfType(ev, "ENRICHED") :
                          /\ ev[i].payload.decision_data.period_days = 0
                          /\ ev[i].payload.decision_data.total_amount = 0
                    /\ Cardinality(EventsOfType(ev, "RULE_TRIGGERED")) = 1
                    /\ \A i \in EventsOfType(ev, "RULE_TRIGGERED") :
                          ev[i].payload.evidence_blocks = <<>>
                    /\ cases'[c].status # "DRAFT"
                    /\ CollaboratorsWork(in) =>
                          /\ \A i \in EventsOfType(ev, "VALIDATED") :
                                \E k \in 1..Len(ev[i].payload.validation.errors) :
                                    ev[i].payload.validation.errors[k]
                                        = <<"No evidence citations provided">>
                          /\ GuardRejected(audit', c)
                          /\ ev[Len(ev)].payload.error
                                = "400: Narrative rejected: unsupported claims detected"
                          /\ CallerToldError(resp', c)
                          /\ cases'[c].draft_narrative = Null
      ]_vars

\* C22 witness: the run of an alert without transactions was rejected by
\* the guard after its validation had been logged
C22_Witness ==
    \E c \in DOMAIN cases :
        /\ cases[c].alert_json.transactions = <<>>
        /\ GuardRejected(audit, c)
        /\ \E i \in 1..Len(audit) :
              /\ audit[i].case_id = c
              /\ audit[i].event_type = "ENRICHED"
              /\ audit[i].payload.decision_data.period_days = 0
        /\ cases[c].status = "INGESTED"

-----------------------------------------------------------------------------
(* The functions of the pipeline called on their own: the arguments are    *)
(* drawn when the behaviour starts, the call applies the function.         *)

\* alerts for Rule B: up to MaxTxns large transactions, inbound or outbound,
\* at hour 0, 6, 7 or 13 or without a usable timestamp
MovementAlerts ==
    LET moves == {Txn(250000, d, "cp1", "IN", ts) :
                     d \in {"in", "out"}, ts \in {Ts(0), Ts(6), Ts(7), Ts(13), BadTs, NoTs}}
    IN  {[customer |-> CustomerPlain, transactions |-> txns, risk_rating |-> "medium"] :
            txns \in SeqUpTo(moves, MaxTxns)}

\* alerts for Rule A: n transactions of 99,999, the first at hour 0 and the
\* others `span` hours later, followed by m transactions of 100,000
StructuringAlerts ==
    LET txn(i, n, span) == IF i > n THEN Txn(100000, "in", "cp2", "IN", Ts(0))
                           ELSE Txn(99999, "in", "cp1", "IN", Ts(IF i = 1 THEN 0 ELSE span))
    IN  {[customer |-> CustomerPlain,
          transactions |-> [i \in 1..(n + m) |-> txn(i, n, span)],
          risk_rating |-> "medium"] :
            n \in {19, 20, 21}, m \in {0, 1}, span \in {0, 10 * 24, 10 * 24 + 1, 11 * 24}}

\* one reversal of a hundred million
AlertReversal ==
    [customer |-> CustomerPlain,
     transactions |-> << Txn(-100000000, "out", "cp1", "IN", Ts(0)) >>,
     risk_rating |-> "medium"]

\* alerts for the Dataset Builder: up to MaxTxns transactions, each with one
\* of two counterparties or none, and a timestamp that parses, one that
\* does not, or none
DatasetAlerts ==
    LET txns == {Txn(900, "in", cp, "IN", ts) :
                    cp \in {"cp1", "cp2", None}, ts \in {Ts(5), BadTs, NoTs}}
    IN  {[customer |-> CustomerPlain, transactions |-> t, risk_rating |-> "medium"] :
            t \in SeqUpTo(txns, MaxTxns)}

\* what a sensitive key may hold
JsonScalars ==
    {JNone, JStr(""), JStr("Al"), JStr("1234"), JStr("Smith"), JStr("9900112233"),
     JInt(0), JInt(12345)}

\* JSON values nested up to `depth` levels: a scalar, a list of one value,
\* a list of a value and a dict, a dict with the sensitive key "phone" and
\* the key "child"
RECURSIVE JsonValues(_)
JsonValues(depth) ==
    IF depth = 0 THEN JsonScalars
    ELSE LET inner == JsonValues(depth - 1)
         IN  JsonScalars
             \cup {JList(<<x>>) : x \in inner}
             \cup {JList(<<x, JDict([email |-> JStr("a@bank.example")])>>) : x \in inner}
             \cup {JDict([phone |-> s, child |-> x]) : s \in JsonScalars, x \in inner}

\* section texts for the validator: long enough, short, with a run of
\* digits, empty, whitespace only; "<absent>" stands for a section that is
\* not in the narrative
SectionTexts ==
    {"Activity is inconsistent with the declared customer profile.",
     "Short.",
     "Funds were moved through account 12345678 within hours of receipt.",
     "",
     " \n\t ",
     "<absent>"}

\* formatted narratives and traces for the validator: the first and the last
\* section take any of the texts, the citation list is empty or not, the
\* trace is empty, covers every section, or covers them without an
\* evidence id in its first entry
ValidatorInputs ==
    LET sections(first, last) ==
            SelectSeqIdx([i \in 1..Len(SECTION_ORDER) |->
                            [name |-> SECTION_ORDER[i],
                             text |-> IF i = 1 THEN first
                                      ELSE IF i = Len(SECTION_ORDER) THEN last
                                      ELSE "Meets SAR filing criteria under the AML guidance in force."]],
                         {i \in 1..Len(SECTION_ORDER) :
                             /\ i = 1 => first # "<absent>"
                             /\ i = Len(SECTION_ORDER) => last # "<absent>"},
                         1)
        trace(lacking) ==
            [i \in 1..Len(SECTION_ORDER) |->
                [section |-> SECTION_ORDER[i],
                 supporting_evidence_id |-> IF i = 1 /\ lacking THEN "" ELSE "AML-001"]]
    IN  {[formatted_narrative |-> [sections |-> sections(first, last),
                                   evidence_citations |-> citations],
          explainability_trace |-> tr] :
            first \in SectionTexts, last \in SectionTexts,
            citations \in {<<>>, <<"AML-001">>},
            tr \in {<<>>, trace(FALSE), trace(TRUE)}}

\* the fallback narratives of the service's alerts
FallbackNarratives ==
    {LET decision_data == build_decision_dataset(alert)
     IN  generate_mock_narrative(
             build_evidence_pack(decision_data, evaluate_rules(decision_data).evidence_blocks))
     : alert \in Alerts}

\* generator outputs for the formatter: what the provider may answer with
\* and the fallback narratives
FormatterInputs == LLMNarratives \cup FallbackNarratives

\* the calls: the function and its arguments, no result yet
UnitCalls ==
    UNION {LET decision_data == build_decision_dataset(alert)
               evidence_blocks == evaluate_rules(decision_data).evidence_blocks
           IN  {[fn |-> "build_explainability_trace",
                 formatted_narrative |->
                    format_sar_narrative(n, 2030, "LOW", 82,
                                         [i \in 1..Len(evidence_blocks) |-> evidence_blocks[i].rule_id],
                                         <<>>),
                 evidence_blocks |-> evidence_blocks, out |-> <<>>] :
                   n \in {m \in FormatterInputs : ~format_raises(m)}}
           : alert \in Alerts \cup ScenarioAlerts}
    \cup
    {[fn |-> "build_decision_dataset", alert |-> alert, out |-> <<>>] : alert \in DatasetAlerts}
    \cup
    {[fn |-> "format_sar_narrative", llm_sections |-> n, out |-> <<>>] : n \in FormatterInputs}
    \cup
    {[fn |-> "validate_v2", formatted_narrative |-> in.formatted_narrative,
      explainability_trace |-> in.explainability_trace, out |-> <<>>] : in \in ValidatorInputs}
    \cup
    {[fn |-> "mask_pii", obj |-> obj, out |-> <<>>] : obj \in JsonValues(MaxDepth)}
    \cup
    {[fn |-> "evaluate_rules", decision_data |-> build_decision_dataset(alert), out |-> <<>>] :
        alert \in MovementAlerts \cup StructuringAlerts}
    \cup
    UNION {LET decision_data == build_decision_dataset(alert)
           IN  {[fn |-> "assess_risk", decision_data |-> decision_data,
                 evidence_blocks |-> blocks, out |-> <<>>] :
                   blocks \in {evaluate_rules(decision_data).evidence_blocks, <<>>,
                               <<GuardBlock("AML-021")>>}}
           : alert \in Alerts \cup ScenarioAlerts \cup StructuringAlerts \cup {AlertReversal}
                       \cup {[AlertStructuring(25, 5000, span, TRUE) EXCEPT !.customer = CustomerPep] :
                                span \in {0, 24, 5 * 24}}}

InitUnits ==
    /\ cases = <<>>
    /\ audit = <<>>
    /\ resp = NoResponse
    /\ guard_in = NoGuardCall
    /\ guard_out = "none"
    /\ req = [t \in Threads |-> Idle]
    /\ posts = <<>>
    /\ call \in UnitCalls

\* evidence_blocks, risk_score = evaluate_rules(decision_data)
rules_call ==
    /\ call.fn = "evaluate_rules"
    /\ call.out = <<>>
    /\ call' = [call EXCEPT !.out = <<evaluate_rules(call.decision_data)>>]
    /\ UNCHANGED <<cases, audit, resp, guard_in, guard_out, req, posts>>

\* assess_risk(decision_data, evidence_blocks) at clock reading `now`, the
\* blocks being those of a rule evaluation at that moment; the same
\* arguments are scored at most MaxClock times
risk_call(now) ==
    /\ call.fn = "assess_risk"
    /\ Len(call.out) < MaxClock
    /\ call' = [call EXCEPT !.out =
                   Append(@, [now |-> now,
                              result |-> assess_risk(call.decision_data,
                                                     stamp_blocks(call.evidence_blocks, now))])]
    /\ UNCHANGED <<cases, audit, resp, guard_in, guard_out, req, posts>>

\* mask_pii(obj)
mask_call ==
    /\ call.fn = "mask_pii"
    /\ call.out = <<>>
    /\ call' = [call EXCEPT !.out = <<mask_pii_json(call.obj)>>]
    /\ UNCHANGED <<cases, audit, resp, guard_in, guard_out, req, posts>>

\* validate_v2(formatted_narrative, explainability_trace)
validate_call ==
    /\ call.fn = "validate_v2"
    /\ call.out = <<>>
    /\ call' = [call EXCEPT !.out = <<validate_v2(call.formatted_narrative,
                                                  call.explainability_trace)>>]
    /\ UNCHANGED <<cases, audit, resp, guard_in, guard_out, req, posts>>

\* format_sar_narrative(llm_sections, ...) with the score, level, confidence
\* and citations of a run: it returns the formatted narrative or leaves
\* with the AttributeError of _as_paragraph
format_call ==
    /\ call.fn = "format_sar_narrative"
    /\ call.out = <<>>
    /\ call' = [call EXCEPT !.out =
                   IF format_raises(call.llm_sections)
                   THEN <<[raised |-> "AttributeError"]>>
                   ELSE <<[returned |-> format_sar_narrative(call.llm_sections, 2030, "LOW", 82,
                                                             <<"AML-001">>, <<>>)]>>]
    /\ UNCHANGED <<cases, audit, resp, guard_in, guard_out, req, posts>>

\* build_decision_dataset(alert): what it returns and the alert afterwards.
\* txns is alert["transactions"] itself, so the loop of lines 37-44 writes
\* into the caller's dicts
dataset_call ==
    /\ call.fn = "build_decision_dataset"
    /\ call.out = <<>>
    /\ call' = [call EXCEPT !.out =
                   LET returned == build_decision_dataset(call.alert)
                   IN  <<[returned |-> returned,
                          alert |-> [call.alert EXCEPT !.transactions = returned.transactions]]>>]
    /\ UNCHANGED <<cases, audit, resp, guard_in, guard_out, req, posts>>

\* build_explainability_trace(formatted, evidence_blocks), the blocks being
\* those of a rule evaluation
trace_call ==
    /\ call.fn = "build_explainability_trace"
    /\ call.out = <<>>
    /\ call' = [call EXCEPT !.out = <<build_explainability_trace(call.formatted_narrative,
                                                                 call.evidence_blocks)>>]
    /\ UNCHANGED <<cases, audit, resp, guard_in, guard_out, req, posts>>

NextUnits ==
    \/ dataset_call
    \/ trace_call
    \/ rules_call
    \/ format_call
    \/ validate_call
    \/ mask_call
    \/ \E now \in 1..MaxClock : risk_call(now)

SpecUnits == InitUnits /\ [][NextUnits]_vars

-----------------------------------------------------------------------------
(* Properties of the Rule Engine *)

\* the blocks of rule `rule_id` in the result of the latest rule evaluation
BlocksOf(rule_id) ==
    {k \in 1..Len(call.out[1].evidence_blocks) :
        call.out[1].evidence_blocks[k].rule_id = rule_id}

\* C23: Rule A emits its block (one block AML-001) exactly when at least 20
\* transactions have an amount below 100000 and period_days is at most 10;
\* 19 such transactions in a 10-day window do not trigger it, nor do 20 in
\* an 11-day window.
C23_StructuringIff ==
    (call.fn = "evaluate_rules" /\ call.out # <<>>) =>
        LET d == call.decision_data
            below == Cardinality({i \in 1..Len(d.transactions) : d.transactions[i].amount < 100000})
        IN  /\ Cardinality(BlocksOf("AML-001")) = (IF below >= 20 /\ d.period_days <= 10 * 100 THEN 1 ELSE 0)
            /\ (below = 19 /\ d.period_days = 10 * 100) => BlocksOf("AML-001") = {}
            /\ (below = 20 /\ d.period_days = 11 * 100) => BlocksOf("AML-001") = {}

\* C23 witness: Rule A triggered on exactly 20 transactions below 100000,
\* next to one of 100000, in a window of exactly 10 days
C23_Witness ==
    /\ call.fn = "evaluate_rules"
    /\ call.out # <<>>
    /\ BlocksOf("AML-001") # {}
    /\ Len(call.decision_data.transactions) = 21
    /\ call.decision_data.period_days = 10 * 100

\* the hours of the transactions of dataset d that go in direction dir and
\* have a timestamp
HoursOf(d, dir) ==
    {d.transactions[i].timestamp.h :
        i \in {j \in 1..Len(d.transactions) :
                  /\ d.transactions[j].direction = dir
                  /\ d.transactions[j].timestamp.kind = "datetime"}}

\* C24: Rule B emits its block (one block AML-017) exactly when the dataset
\* has an inbound and an outbound transaction with a timestamp and the
\* earliest outbound one comes 0 to 6 hours, bounds included, after the
\* latest inbound one; it never triggers when the earliest outbound one
\* precedes the latest inbound one.
C24_RapidMovementIff ==
    (call.fn = "evaluate_rules" /\ call.out # <<>>) =>
        LET ins == HoursOf(call.decision_data, "in")
            outs == HoursOf(call.decision_data, "out")
            within == /\ ins # {}
                      /\ outs # {}
                      /\ \E first_out \in outs, last_in \in ins :
                            /\ \A h \in outs : first_out <= h
                            /\ \A h \in ins : h <= last_in
                            /\ 0 <= first_out - last_in
                            /\ first_out - last_in <= 6
        IN  /\ Cardinality(BlocksOf("AML-017")) = (IF within THEN 1 ELSE 0)
            /\ (\E o \in outs, i \in ins : (\A h \in outs : o <= h) /\ (\A h \in ins : h <= i) /\ o < i)
                   => BlocksOf("AML-017") = {}

\* C24 witness: Rule B triggered on two inbound transactions, at hour 0 and
\* hour 7, and one outbound at hour 13, six hours after the latest inbound
C24_Witness ==
    /\ call.fn = "evaluate_rules"
    /\ call.out # <<>>
    /\ BlocksOf("AML-017") # {}
    /\ HoursOf(call.decision_data, "in") = {0, 7}
    /\ HoursOf(call.decision_data, "out") = {13}

-----------------------------------------------------------------------------
(* Properties of the Risk Scorer *)

\* C25: whatever the dataset and the evidence blocks, the risk score that
\* assess_risk returns is at least 0 and at most 100.
C25_ScoreInRange ==
    call.fn = "assess_risk" =>
        \A i \in 1..Len(call.out) :
            /\ call.out[i].result.risk_score >= 0
            /\ call.out[i].result.risk_score <= 100 * 100

\* C25 witness: a dataset whose total amount is negative, so that the
\* weighted sum is below zero, was scored 0
C25_Witness ==
    /\ call.fn = "assess_risk"
    /\ call.out # <<>>
    /\ call.decision_data.total_amount < 0
    /\ call.out[1].result.risk_score = 0

\* C26: two evaluations of assess_risk on the same dataset and the same
\* evidence blocks return the same score, level, contributing factors and
\* rationale, whenever they are made and whatever the triggered_at values
\* of the blocks.
C26_ScoringDeterministic ==
    call.fn = "assess_risk" =>
        \A i, j \in 1..Len(call.out) :
            /\ call.out[i].result.risk_score = call.out[j].result.risk_score
            /\ call.out[i].result.risk_level = call.out[j].result.risk_level
            /\ call.out[i].result.contributing_factors = call.out[j].result.contributing_factors
            /\ call.out[i].result.rationale = call.out[j].result.rationale

\* C26 witness: a dataset with a PEP customer was scored twice, at two
\* clock readings, with evidence blocks triggered at those readings
C26_Witness ==
    /\ call.fn = "assess_risk"
    /\ Len(call.out) = 2
    /\ call.out[1].now # call.out[2].now
    /\ Len(call.evidence_blocks) = 2
    /\ call.decision_data.customer.pep_flags # <<>>
    /\ call.out[1].result.risk_score > 0

-----------------------------------------------------------------------------
(* Properties of the PII Masker *)

\* what the masking policy makes of the value v of a sensitive key: None,
\* "" and 0 stay; otherwise "****" for a text of at most four characters
\* and else its first two characters, "****" and its last two characters
MaskPolicy(v) ==
    IF v \in {JNone, JStr(""), JInt(0)} THEN v
    ELSE LET s == IF "int" \in DOMAIN v THEN IntStr(v.int) ELSE v.str
         IN  JStr(IF Len(s) <= 4 THEN "****"
                  ELSE SubSeq(s, 1, 2) \o "****" \o SubSeq(s, Len(s) - 1, Len(s)))

\* y is x with the same structure, the values of the sensitive keys at any
\* depth replaced as the policy says (and then different from the raw
\* value) and everything else unchanged
RECURSIVE MaskedTree(_, _)
MaskedTree(x, y) ==
    IF "dict" \in DOMAIN x
    THEN /\ DOMAIN y = {"dict"}
         /\ DOMAIN y.dict = DOMAIN x.dict
         /\ \A k \in DOMAIN x.dict :
               IF k \in PII_FIELDS
               THEN /\ y.dict[k] = MaskPolicy(x.dict[k])
                    /\ (x.dict[k] \notin {JNone, JStr(""), JInt(0)}) => y.dict[k] # x.dict[k]
               ELSE MaskedTree(x.dict[k], y.dict[k])
    ELSE IF "list" \in DOMAIN x
    THEN /\ DOMAIN y = {"list"}
         /\ Len(y.list) = Len(x.list)
         /\ \A i \in 1..Len(x.list) : MaskedTree(x.list[i], y.list[i])
    ELSE y = x

-----------------------------------------------------------------------------
(* Properties of the Validator *)

\* the first elements of the findings in list `found`
Findings(found) == {found[i][1] : i \in 1..Len(found)}

\* C28: validate_v2 always returns the structured result (passed, errors,
\* warnings, summary), and passed is false exactly when one of the nine
\* fixed sections is missing or blank or the citation list is empty; the
\* low-clarity, possible-PII, lacking-id and no-coverage findings are
\* warnings and leave passed as it is.
C28_OnlyStructureBlocks ==
    (call.fn = "validate_v2") =>
        LET sections == call.formatted_narrative.sections
            present(name) == \E i \in 1..Len(sections) : sections[i].name = name
            blank(name) == \E i \in 1..Len(sections) :
                              /\ sections[i].name = name
                              /\ \A k \in 1..Len(sections[i].text) :
                                    SubSeq(sections[i].text, k, k) \in {" ", "\n", "\t", "\r"}
            blocking == \/ \E n \in 1..Len(SECTION_ORDER) :
                              ~present(SECTION_ORDER[n]) \/ blank(SECTION_ORDER[n])
                        \/ call.formatted_narrative.evidence_citations = <<>>
        IN  call.out # <<>> =>
               /\ DOMAIN call.out[1] = {"passed", "errors", "warnings", "summary"}
               /\ call.out[1].passed = ~blocking
               /\ call.out[1].passed = (call.out[1].errors = <<>>)
               /\ Findings(call.out[1].errors)
                     \subseteq {"Missing section", "Empty section", "No evidence citations provided"}
               /\ Findings(call.out[1].warnings)
                     \subseteq {"Some statements lack evidence ids", "Narrative clarity low in section",
                                "Possible unmasked PII detected in", "No explainability coverage for"}

\* C28 witness: a validation passed with a low-clarity warning, a
\* possible-PII warning and no-coverage warnings
C28_Witness ==
    /\ call.fn = "validate_v2"
    /\ call.out # <<>>
    /\ call.out[1].passed
    /\ {"Narrative clarity low in section", "Possible unmasked PII detected in",
        "No explainability coverage for"} \subseteq Findings(call.out[1].warnings)

-----------------------------------------------------------------------------
(* Properties of the Narrative Formatter *)

\* the text the generator output n supplies for a section, under the
\* section's key or under its name; "" when it supplies none
Supplied(n, section) ==
    LET keys == {section_key(section), section} \cap DOMAIN n
        texts == {n[k] : k \in keys} \ {None}
    IN  IF texts = {} THEN "" ELSE CHOOSE x \in texts : \A y \in texts : Len(y) <= Len(x)

\* C29: whatever the generator returned, formatting does not raise and the
\* formatted narrative holds exactly the nine fixed sections in the fixed
\* order, each with a non-blank text, which is "Not provided." for a
\* section the generator did not supply or supplied blank.
C29_NineSectionsAlways ==
    (call.fn = "format_sar_narrative" /\ call.out # <<>>) =>
        /\ DOMAIN call.out[1] = {"returned"}
        /\ LET sections == call.out[1].returned.sections
           IN  /\ [i \in 1..Len(sections) |-> sections[i].name] = SECTION_ORDER
               /\ \A i \in 1..Len(sections) :
                     /\ strip(sections[i].text) # ""
                     /\ strip(Supplied(call.llm_sections, sections[i].name)) = ""
                           => sections[i].text = "Not provided."

-----------------------------------------------------------------------------
(* Properties of the audit timeline of a run *)

\* the stage events of a run, in the order main.py 137 and 58-103 log them
StageEvents ==
    <<"INGESTED", "ENRICHED", "RULE_TRIGGERED", "RISK_ASSESSED", "EVIDENCE_BUILT",
      "RETRIEVAL_COMPLETE", "DRAFT_GENERATED", "VALIDATED">>

\* the event types of the audit timeline of case c: its events ordered by
\* timestamp, as GET /cases/{id}/audit returns them
Timeline(log, c) ==
    LET ev == order_by_timestamp(CaseEvents(log, c))
    IN  [i \in 1..Len(ev) |-> ev[i].event_type]

IsStage(e) == \E k \in 1..Len(StageEvents) : StageEvents[k] = e

\* C30: for every pipeline run that completes (the run reached lines 109-121
\* and updated the status of the case), the audit timeline of the case holds
\* the stage events INGESTED, ENRICHED, RULE_TRIGGERED, RISK_ASSESSED,
\* EVIDENCE_BUILT, RETRIEVAL_COMPLETE, DRAFT_GENERATED, VALIDATED in this
\* order, each exactly once; the only other event it can hold is the ERROR
\* event of a failed provider call, between RETRIEVAL_COMPLETE and
\* DRAFT_GENERATED.  The VALIDATED event is appended before the status is
\* updated: no case ever has an updated status without a VALIDATED event.
C30_StageEventsInOrder ==
    [][(\A in \in PipelineInputs :
           IngestStep(in) =>
              \A c \in Created :
                  cases'[c].status # "INGESTED" =>
                      LET tl == Timeline(audit', c)
                      IN  /\ SelectSeq(tl, IsStage) = StageEvents
                          /\ \A i \in 1..Len(tl) :
                                ~IsStage(tl[i]) =>
                                    /\ tl[i] = "ERROR"
                                    /\ in.llm.kind = "raise"
                                    /\ tl[i - 1] = "RETRIEVAL_COMPLETE"
                                    /\ tl[i + 1] = "DRAFT_GENERATED")
       /\ (\A d \in DOMAIN cases' :
              cases'[d].status # "INGESTED" =>
                  \E i \in 1..Len(audit') :
                      /\ audit'[i].case_id = d
                      /\ audit'[i].event_type = "VALIDATED")
      ]_vars

\* C30 witness: a case whose run completed with status DRAFT and whose
\* timeline is exactly the eight stage events
C30_Witness ==
    \E c \in DOMAIN cases :
        /\ cases[c].status = "DRAFT"
        /\ Timeline(audit, c) = StageEvents

-----------------------------------------------------------------------------
(* Properties of the Dataset Builder *)

\* C31: building the decision dataset leaves the alert it was given, the
\* timestamp field of every transaction included, exactly as it was
\* received.
C31_AlertUnchanged ==
    (call.fn = "build_decision_dataset" /\ call.out # <<>>) =>
        call.out[1].alert = call.alert

\* the distinct counterparty identifiers of the transactions that are not
\* null (a missing key reads as null)
Counterparties(txns) ==
    {txns[i].counterparty : i \in 1..Len(txns)} \ {None}

\* C32: the unique_counterparties of the dataset is the number of distinct
\* non-null counterparty identifiers among the transactions; a transaction
\* without counterparty adds nothing to it.
C32_CounterpartiesCounted ==
    (call.fn = "build_decision_dataset" /\ call.out # <<>>) =>
        call.out[1].returned.unique_counterparties
            = Cardinality(Counterparties(call.alert.transactions))

-----------------------------------------------------------------------------
(* Properties of the factors of the Risk Scorer *)

\* C33: the structuring factor of the Risk Scorer is 30 times the fraction
\* of the transactions whose amount is below the sub-threshold cutoff Rule A
\* counts against (StructuringCutoff), capped at 30, and 0 when there are
\* no transactions.
C33_StructuringFactor ==
    (call.fn = "assess_risk" /\ call.out # <<>>) =>
        LET txns == call.decision_data.transactions
            below == {i \in 1..Len(txns) : txns[i].amount < StructuringCutoff}
        IN  \A k \in 1..Len(call.out) :
                call.out[k].result.contributing_factors.structuring_pattern
                    = IF txns = <<>> THEN 0
                      ELSE Min(30 * 100, (Cardinality(below) * 30 * 100) \div Len(txns))

-----------------------------------------------------------------------------
(* Properties of the Explainability Linker *)

\* C34: the explainability trace holds exactly one entry for every pair of
\* a fixed section and a triggered evidence block and no other entry: its
\* length is 9 times the number of triggered rules, every section is
\* covered as soon as one rule triggered, and each entry carries the rule
\* id, the name, the confidence and the evidence facts of its block.
C34_TraceEverySectionEveryBlock ==
    (call.fn = "build_explainability_trace" /\ call.out # <<>>) =>
        LET trace == call.out[1]
            blocks == call.evidence_blocks
            links(section, b) == {k \in 1..Len(trace) :
                                     /\ trace[k].section = section
                                     /\ trace[k].supporting_evidence_id = blocks[b].rule_id}
        IN  /\ Len(trace) = 9 * Len(blocks)
            /\ \A i \in 1..Len(SECTION_ORDER) :
                  \A b \in 1..Len(blocks) :
                      /\ Cardinality(links(SECTION_ORDER[i], b)) = 1
                      /\ \A k \in links(SECTION_ORDER[i], b) :
                            /\ trace[k].rule_triggered = blocks[b].rule_name
                            /\ trace[k].confidence_weight = blocks[b].confidence_score
                            /\ trace[k].evidence_details = blocks[b].evidence
            /\ \A k \in 1..Len(trace) :
                  \E i \in 1..Len(SECTION_ORDER) :
                      \E b \in 1..Len(blocks) : k \in links(SECTION_ORDER[i], b)
            /\ blocks # <<>> =>
                  \A i \in 1..Len(SECTION_ORDER) :
                      \E k \in 1..Len(trace) : trace[k].section = SECTION_ORDER[i]

\* C34 witness: the trace of a narrative built on two triggered rules has
\* 18 entries, the first two linking the first section to AML-017 and to
\* AML-021
C34_Witness ==
    /\ call.fn = "build_explainability_trace"
    /\ call.out # <<>>
    /\ Len(call.evidence_blocks) = 2
    /\ Len(call.out[1]) = 18
    /\ call.out[1][1].section = "Subject Information"
    /\ call.out[1][1].supporting_evidence_id = "AML-017"
    /\ call.out[1][2].section = "Subject Information"
    /\ call.out[1][2].supporting_evidence_id = "AML-021"

-----------------------------------------------------------------------------
(* Properties of the fallback narrative in the formatter *)

\* the keys of the fallback narrative in the order _generate_mock_narrative
\* writes them, llm.py 38-46: the i-th is the text generated for the i-th
\* fixed section
FallbackKeys ==
    <<"subject_information", "account_details", "alert_summary",
      "transaction_pattern_analysis", "suspicious_behaviour_indicators",
      "supporting_evidence", "regulatory_justification", "investigator_assessment",
      "conclusion_recommendation">>

\* C35: when the output of the fallback generator is formatted, each of the
\* nine fixed sections receives the fallback text generated for it whenever
\* that text is not empty: no non-empty fallback section is replaced by the
\* placeholder "Not provided.".
C35_FallbackSectionsKept ==
    (call.fn = "format_sar_narrative" /\ call.llm_sections \in FallbackNarratives
        /\ call.out # <<>>) =>
        /\ DOMAIN call.out[1] = {"returned"}
        /\ \A i \in 1..Len(SECTION_ORDER) :
              LET text == call.llm_sections[FallbackKeys[i]]
                  section == call.out[1].returned.sections[i]
              IN  text # "" =>
                      /\ section.name = SECTION_ORDER[i]
                      /\ section.text = replace_newline(strip(text))
                      /\ section.text # "Not provided."

\* the largest weighted sum: every factor at its cap,
\* (40 * 22 + 30 * 20 + 25 * 18 + 30 * 20 + 40 * 20) / 100 = 33.3, in hundredths
ScoreCeiling == (40 * 22 + 30 * 20 + 25 * 18 + 30 * 20 + 40 * 20)

\* C36: for every dataset whose amounts are not negative and every evidence
\* set, the score assess_risk computes is at most 33.3, so the level is LOW
\* or MEDIUM: HIGH and CRITICAL are never produced.
C36_ScoreAtMostCeiling ==
    (call.fn = "assess_risk"
        /\ \A t \in 1..Len(call.decision_data.transactions) :
              call.decision_data.transactions[t].amount >= 0) =>
        \A i \in 1..Len(call.out) :
            /\ call.out[i].result.risk_score <= ScoreCeiling
            /\ call.out[i].result.risk_level \in {"LOW", "MEDIUM"}
            /\ call.out[i].result.risk_level = "MEDIUM"
                  <=> call.out[i].result.risk_score >= RiskMedium * 100

\* C36 witness: a PEP customer with 25 small transactions at one instant to
\* 25 counterparties and a high-risk corridor block has every factor at its
\* cap: the score is 33.3 and the level MEDIUM
C36_Witness ==
    /\ call.fn = "assess_risk"
    /\ call.out # <<>>
    /\ call.decision_data.customer.pep_flags # <<>>
    /\ call.decision_data.unique_counterparties = 25
    /\ call.out[1].result.risk_score = 3330
    /\ call.out[1].result.risk_level = "MEDIUM"

-----------------------------------------------------------------------------
(* Properties of the statuses no operation leaves *)

\* the statuses the exposed operations never leave: REJECTED, SUBMITTED, and
\* INGESTED, which a case keeps when its pipeline run failed
DeadEnds == {"REJECTED", "SUBMITTED", "INGESTED"}

\* C37: a case whose status is REJECTED, SUBMITTED, or INGESTED after a
\* failed pipeline run never changes status again, whatever operation comes
\* next: every submit, approve, reject and finalize on it is refused with
\* 'Invalid transition' and changes nothing, and no operation at all brings
\* an existing case (REJECTED, VALIDATION_FAILED or other) to DRAFT.
C37_DeadEndsStay ==
    [][\A c \in DOMAIN cases :
          /\ cases[c].status \in DeadEnds =>
                /\ cases'[c] = cases[c]
                /\ \A target \in LifecycleTargets :
                      LifecycleStep(c, target) =>
                          /\ resp' = InvalidTransition
                          /\ audit' = audit
          /\ cases'[c].status = "DRAFT" => cases[c].status = "DRAFT"
      ]_vars

\* C37 witness: a request on a rejected case has been refused, and the case
\* is still REJECTED
C37_Witness ==
    \E c \in DOMAIN cases :
        /\ cases[c].status = "REJECTED"
        /\ resp = InvalidTransition
        /\ \E i \in 1..Len(audit) : audit[i].case_id = c /\ audit[i].event_type = "REJECTED"

-----------------------------------------------------------------------------
(* Properties of the way to SUBMITTED *)

\* the positions of the events of case c of one of the types, in the log
EventsAt(log, c, types) ==
    {i \in 1..Len(log) : log[i].case_id = c /\ log[i].event_type \in types}

\* C38: every case that reaches SUBMITTED held DRAFT, REVIEW and APPROVED
\* before, in this order: a case gets the status SUBMITTED only from
\* APPROVED, APPROVED only from REVIEW, REVIEW only from DRAFT, and DRAFT only
\* from the completed pipeline run that created it; and the audit log of a
\* SUBMITTED case holds, in this order, the VALIDATED event of its run, the
\* event of the submit for review, the APPROVED event and the event of the
\* finalize.
C38_SubmittedWentThroughReview ==
    [][\A c \in DOMAIN cases' :
          /\ c \in DOMAIN cases /\ cases'[c].status # cases[c].status =>
                \/ cases[c].status = "DRAFT" /\ cases'[c].status = "REVIEW"
                \/ cases[c].status = "REVIEW" /\ cases'[c].status \in {"APPROVED", "REJECTED"}
                \/ cases[c].status = "APPROVED" /\ cases'[c].status = "SUBMITTED"
          /\ c \notin DOMAIN cases =>
                /\ cases'[c].status \in {"DRAFT", "VALIDATION_FAILED", "INGESTED"}
                /\ cases'[c].status = "DRAFT" =>
                      /\ cases'[c].draft_narrative # Null
                      /\ EventsAt(audit', c, {"VALIDATED"}) # {}
          /\ cases'[c].status = "SUBMITTED" =>
                \E v \in EventsAt(audit', c, {"VALIDATED"}) :
                \E s \in EventsAt(audit', c, {"SUBMITTED"}) :
                \E a \in EventsAt(audit', c, {"APPROVED"}) :
                \E f \in EventsAt(audit', c, {"SUBMITTED"}) :
                    /\ v < s /\ s < a /\ a < f
                    /\ cases'[c].draft_narrative # Null
      ]_vars

\* C38 witness: a SUBMITTED case whose events are those of its run followed
\* by SUBMITTED, APPROVED, SUBMITTED
C38_Witness ==
    \E c \in DOMAIN cases :
        /\ cases[c].status = "SUBMITTED"
        /\ LET tl == Timeline(audit, c)
           IN  /\ Len(tl) >= 3
               /\ SubSeq(tl, Len(tl) - 2, Len(tl)) = <<"SUBMITTED", "APPROVED", "SUBMITTED">>
               /\ \E i \in 1..Len(tl) : tl[i] = "VALIDATED"

====
